---- MODULE Spec2Model ----
(***************************************************************************)
(* FabricDB class store (src/src/ClassStore.c, src/src/Class.c) as a state *)
(* machine: the in-memory store header, the cache (EntityMap) of heap      *)
(* allocated Class objects, the changed set (IdSet), the class region of   *)
(* the graph file, and the pointers the caller holds.                      *)
(*                                                                         *)
(* Values on disk are kept as the numbers a big-endian decoder reads.      *)
(* A Class object is identified by <<id, gen>>: the gen-th object that was *)
(* allocated for class id `id`; NULL is <<0, 0>>.                          *)
(***************************************************************************)
EXTENDS Integers, Sequences, FiniteSets, Bags, TLC

\* ---------------------------------------------------------------- bounds
\* Number of slots the initial file has written (ids 1..MaxClasses).
MaxClasses == 3
\* Objects that may be allocated for one class id before the model stops
\* allocating more.
MaxGen == 2

\* ------------------------------------------------------ program constants
FABRIC_OK == 0
FABRIC_OUT_OF_MEMORY == 2
FABRIC_CLASSSTORE_INVALID_ID == 257
FABRIC_CLASS_DOESNT_EXIST == 258
FABRIC_DUPLICATE_CLASSNAME == 259
FABRIC_CANT_DELETE_CLASS_HAS_CHILDREN == 260
FABRIC_CANT_DELETE_CLASS_HAS_MEMBERS == 261
FABRIC_CLASSSTORE_NEEDS_RESIZE == 272
FABRIC_CLASS_STORAGE_SIZE == 21
FABRIC_CLASSSTORE_HEADER_SIZE == 6

\* Pseudo status of a call that never returns (null dereference, endless
\* loop); it is not a value of error_t.
CRASH == 9999

\* Pseudo status of a call whose loop never ends.
HANG == 9998

\* Pseudo status of a call that has not returned yet.
BUSY == 9997

\* ------------------------------------------------------------- geometry
\* self->offset: where the class region starts (right after the header).
ClassStoreOffset == 84
\* self->size = label_store.offset - class_store.offset: the file the model
\* loads has a class region of MaxClasses + 1 slots, the last never written.
ClassStoreSize == FABRIC_CLASSSTORE_HEADER_SIZE + (MaxClasses + 1) * FABRIC_CLASS_STORAGE_SIZE

Fabric_ClassStore__get_id_offset(class_id) ==
    (class_id - 1) * FABRIC_CLASS_STORAGE_SIZE + ClassStoreOffset + FABRIC_CLASSSTORE_HEADER_SIZE

\* max_id of Fabric_ClassStore_flush
max_id == (ClassStoreSize - FABRIC_CLASSSTORE_HEADER_SIZE) \div FABRIC_CLASS_STORAGE_SIZE

\* The ids whose slot get_class is willing to read: the test of line 189
\* compares the slot's start with the region's end.
Readable(class_id) ==
    ~ (Fabric_ClassStore__get_id_offset(class_id) > ClassStoreSize + ClassStoreOffset \/ class_id < 1)

Slots == { i \in 1..(max_id + 2) : Readable(i) }

U16(x) == x % 65536

\* ----------------------------------------------------------- byte order
\* The byte-reversed value of a 16-bit and of a 32-bit number (the 32-bit
\* values of the model have a low byte below 128, so the result fits).
Swap16(v) == (v % 256) * 256 + (v \div 256)
Swap32(v) == (v % 256) * 16777216 + ((v \div 256) % 256) * 65536
             + ((v \div 65536) % 256) * 256 + (v \div 16777216)

\* ------------------------------------------------------------ Class object
NULL == <<0, 0>>
ABSENT == -1

BlankSlot == [label_id |-> 0, parent_id |-> 0, first_child_id |-> 0,
              next_child_id |-> 0, first_index_id |-> 0, count |-> 0,
              is_abstract |-> 0, incrementer |-> 0]

Fabric_Class_is_in_use(c) == c.label_id # 0

Fabric_Class_has_child_classes_Mut(c) == c.next_child_id # 0
Fabric_Class_has_child_classes(c) == c.first_child_id # 0

Fabric_Class_has_members_Mut(c) == c.count > 1
Fabric_Class_has_members(c) == c.count > 0

\* Fabric_Class_init: every field is the big-endian reading of its bytes.
Fabric_Class_init(data) == data

\* Fabric_Class_load_bytes stores the fields in host byte order.
Fabric_Class_load_bytes(c, le) ==
    [label_id       |-> IF le THEN Swap32(c.label_id) ELSE c.label_id,
     parent_id      |-> IF le THEN Swap16(c.parent_id) ELSE c.parent_id,
     first_child_id |-> IF le THEN Swap16(c.first_child_id) ELSE c.first_child_id,
     next_child_id  |-> IF le THEN Swap16(c.next_child_id) ELSE c.next_child_id,
     first_index_id |-> IF le THEN Swap16(c.first_index_id) ELSE c.first_index_id,
     count          |-> IF le THEN Swap32(c.count) ELSE c.count,
     is_abstract    |-> c.is_abstract,
     incrementer    |-> IF le THEN Swap32(c.incrementer) ELSE c.incrementer]

\* ---------------------------------------------------------------- state
VARIABLES
    hostLE,        \* the build's byte order: "le", "be", or "any" while no
                   \* write has shown it yet
    disk,          \* class region: slot id -> record as read big-endian
    dheader,       \* class region header on disk: num, next, last
    num_classes,   \* ClassStore.num_classes
    next_free_id,  \* ClassStore.next_free_id
    last_free_id,  \* ClassStore.last_free_id
    heap,          \* id -> sequence of the Class objects allocated for it
    cache,         \* ClassStore.cache: id -> ABSENT, 0 (NULL entity) or gen
    changed,       \* ClassStore.changed
    changed_cap,   \* capacity of the table of ClassStore.changed
    file_change_counter, \* Graph.file_change_counter
    label_store,   \* the LabelStore: disk, counters, cache, changed
    set,           \* an IdSet: count, cap, ids
    map,           \* an EntityMap: count, cap, entries
    list,          \* a DynamicList: count, cap, list
    fabric_mem_used,  \* Memory.c: _fabric_mem_used
    fabric_mem_errno, \* Memory.c: _fabric_mem_errno
    blocks,        \* history: the bag of sizes of the blocks obtained and not released
    ptr_size,      \* sizeof(void *) of the build
    abs,           \* history: the set, map or sequence the collection stands for
    file,          \* the bytes of the graph file, from offset 0 on
    hdr,           \* the Graph object the caller's last create or load filled in
    freed,         \* history: the ids freed and not reallocated, latest first
    last           \* history: the last mutating call, its argument, result

vars == <<hostLE, disk, dheader, num_classes, next_free_id, last_free_id,
          heap, cache, changed, changed_cap, file_change_counter, label_store,
          set, map, list, fabric_mem_used, fabric_mem_errno, blocks, ptr_size, abs,
          file, hdr, freed, last>>

\* The collections and the allocator, which the stores' actions leave alone.
lib == <<set, map, list, fabric_mem_used, fabric_mem_errno, blocks, ptr_size, abs>>

\* The store as one value, for the operators that model the C functions.
\* mem is the number of allocations that still succeed in the current call
\* (NoFail: malloc never fails).
NoFail == -1

StoreWith(m) == [disk |-> disk, num_classes |-> num_classes,
                 next_free_id |-> next_free_id, last_free_id |-> last_free_id,
                 heap |-> heap, cache |-> cache, changed |-> changed,
                 changed_cap |-> changed_cap, mem |-> m]

Store == StoreWith(NoFail)

Deref(s, r) == s.heap[r[1]][r[2]]

SetField(s, r, f, v) ==
    [s EXCEPT !.heap[r[1]][r[2]] = [@ EXCEPT ![f] = v]]

\* Fabric_EntityMap_get: the entity stored for key, NULL when the key is
\* absent (or when the stored entity is NULL).
Fabric_EntityMap_get(c, key) ==
    IF key \in DOMAIN c /\ c[key] > 0 THEN <<key, c[key]>> ELSE NULL

Fabric_EntityMap_has_key(c, key) == key \in DOMAIN c /\ c[key] # ABSENT

\* Fabric_EntityMap_set(cache, key, entity)
Fabric_EntityMap_set(s, key, r) == [s EXCEPT !.cache[key] = r[2]]

\* Fabric_IdSet_add(changed, id): the store after the call and the status.
\* A new id that brings the load of the table above FABRIC_IDSET_MAXLOAD
\* (0.6) doubles the table first, which needs an allocation.
FABRIC_IDSET_DEFAULT_CAPACITY == 32

Fabric_IdSet_add(s, id) ==
    IF id \in s.changed THEN [s |-> s, status |-> FABRIC_OK]
    ELSE IF (Cardinality(s.changed) + 1) * 10 > 6 * s.changed_cap THEN
        IF s.mem = 0 THEN [s |-> s, status |-> FABRIC_OUT_OF_MEMORY]
        ELSE [s |-> [s EXCEPT !.changed = @ \cup {id},
                              !.changed_cap = @ * 2,
                              !.mem = IF @ > 0 THEN @ - 1 ELSE @],
              status |-> FABRIC_OK]
    ELSE [s |-> [s EXCEPT !.changed = @ \cup {id}], status |-> FABRIC_OK]

\* A remove that leaves the id in the table.
Fabric_IdSet_remove_Mut(S, id) == S

\* Fabric_IdSet_remove(changed, id)
Fabric_IdSet_remove(S, id) == S \ {id}

\* What the file holds at a slot; bytes never written read as zero.
ReadSlot(d, class_id) == IF class_id \in DOMAIN d THEN d[class_id] ELSE BlankSlot

Ret(s, ret, status) == [s |-> s, ret |-> ret, status |-> status, over |-> FALSE]

\* Fabric_ClassStore_get_class(self, class_id, status).  The result carries
\* the store after the call, the returned pointer, *status, and `over` when
\* the call would allocate more objects than the model keeps.
Fabric_ClassStore_get_class(s, class_id) ==
    LET c == Fabric_EntityMap_get(s.cache, class_id) IN
    IF c # NULL THEN
        IF ~ Fabric_Class_is_in_use(Deref(s, c))
        THEN Ret(s, NULL, FABRIC_CLASS_DOESNT_EXIST)
        ELSE Ret(s, c, FABRIC_OK)
    ELSE IF ~ Readable(class_id) THEN
        Ret(s, NULL, FABRIC_CLASSSTORE_INVALID_ID)
    ELSE IF s.mem = 0 THEN
        \* Fabric_Class_new: malloc returned NULL
        Ret(s, NULL, FABRIC_OUT_OF_MEMORY)
    ELSE IF Len(s.heap[class_id]) >= MaxGen THEN
        [s |-> s, ret |-> NULL, status |-> FABRIC_OK, over |-> TRUE]
    ELSE
        LET obj == Fabric_Class_init(ReadSlot(s.disk, class_id))
            n   == <<class_id, Len(s.heap[class_id]) + 1>>
            s1  == [s EXCEPT !.heap[class_id] = Append(@, obj),
                             !.mem = IF @ > 0 THEN @ - 1 ELSE @]
            s2  == Fabric_EntityMap_set(s1, class_id, n)
        IN IF ~ Fabric_Class_is_in_use(obj)
           THEN Ret(s2, NULL, FABRIC_CLASS_DOESNT_EXIST)
           ELSE Ret(s2, n, FABRIC_OK)

\* Fabric_ClassStore__add_free_id
Fabric_ClassStore__add_free_id_Mut(s, c) ==
    [SetField(s, c, "parent_id", s.last_free_id) EXCEPT !.next_free_id = c[1]]
Fabric_ClassStore__add_free_id(s, c) ==
    [SetField(s, c, "parent_id", s.next_free_id) EXCEPT !.next_free_id = c[1]]

\* Stubs of IndexStore.c and LabelStore.c: they do nothing and return OK.
Fabric_IndexStore_remove_class_from_index == FABRIC_OK
Fabric_IndexStore_add_class_to_index_if_not_exists == FABRIC_OK
Fabric_LabelStore_remove_label == FABRIC_OK

\* The loop of lines 420-425: from child, follow next-sibling until the
\* class whose next-sibling is class_id.  A chain that never gets there
\* keeps the loop running: CRASH.
RECURSIVE FindPrevious(_, _, _, _)
FindPrevious(s, child, class_id, fuel) ==
    IF Deref(s, child).next_child_id = class_id THEN Ret(s, child, FABRIC_OK)
    ELSE IF fuel = 0 THEN Ret(s, NULL, CRASH)
    ELSE LET r == Fabric_ClassStore_get_class(s, Deref(s, child).next_child_id)
         IN IF r.over \/ r.status # FABRIC_OK THEN r
            ELSE FindPrevious(r.s, r.ret, class_id, fuel - 1)

\* Lines 433-455 of delete_class.  st: status of the hierarchy update;
\* parent, child: parent_class and child_class (NULL on the first-child
\* path).  Fabric_EntityMap_set finds the key of c in the cache (c came out
\* of get_class), so it stores the entity and returns OK.
DeleteTail(s, c, parent, child, st) ==
    LET class_id == c[1]
        a1 == IF st # FABRIC_OK THEN [s |-> s, status |-> st]
              ELSE IF Fabric_IndexStore_remove_class_from_index # FABRIC_OK
              THEN [s |-> s, status |-> Fabric_IndexStore_remove_class_from_index]
              ELSE Fabric_IdSet_add(s, class_id)
        a2 == IF a1.status # FABRIC_OK THEN a1
              ELSE Fabric_IdSet_add(Fabric_EntityMap_set(a1.s, class_id, c), class_id)
        st3 == IF a2.status # FABRIC_OK THEN a2.status ELSE Fabric_LabelStore_remove_label
    IN IF st3 # FABRIC_OK THEN
           \* revert changes on error
           Ret(IF child = NULL
               THEN SetField(a2.s, parent, "first_child_id", class_id)
               ELSE SetField(a2.s, child, "next_child_id", class_id), NULL, st3)
       ELSE
           Ret([Fabric_ClassStore__add_free_id(a2.s, c) EXCEPT !.num_classes = U16(@ - 1)],
               NULL, FABRIC_OK)

\* Fabric_ClassStore_delete_class(self, c)
Fabric_ClassStore_delete_class(s, c) ==
    IF ~ Fabric_Class_is_in_use(Deref(s, c)) THEN Ret(s, NULL, FABRIC_OK)
    ELSE IF Fabric_Class_has_child_classes(Deref(s, c)) THEN
        Ret(s, NULL, FABRIC_CANT_DELETE_CLASS_HAS_CHILDREN)
    ELSE IF Fabric_Class_has_members(Deref(s, c)) THEN
        Ret(s, NULL, FABRIC_CANT_DELETE_CLASS_HAS_MEMBERS)
    ELSE
        LET class_id == c[1]
            p == Fabric_ClassStore_get_class(s, Deref(s, c).parent_id)
        IN
        IF p.over \/ p.status # FABRIC_OK THEN p
        ELSE IF Deref(p.s, p.ret).first_child_id = class_id THEN
            \* line 411 stores child_class, which is still NULL, for the parent
            LET s2 == SetField(p.s, p.ret, "first_child_id", Deref(p.s, c).next_child_id)
                s3 == Fabric_EntityMap_set(s2, p.ret[1], NULL)
                a4 == Fabric_IdSet_add(s3, p.ret[1])
            IN DeleteTail(a4.s, c, p.ret, NULL, a4.status)
        ELSE
            LET f == Fabric_ClassStore_get_class(p.s, Deref(p.s, p.ret).first_child_id)
            IN
            IF f.over \/ f.status # FABRIC_OK THEN f
            ELSE
                LET w == FindPrevious(f.s, f.ret, class_id, Cardinality(Slots))
                IN
                IF w.over \/ w.status # FABRIC_OK THEN w
                ELSE
                    \* line 426 writes class_id, the value the field has
                    LET s2 == SetField(w.s, w.ret, "next_child_id", class_id)
                        s3 == Fabric_EntityMap_set(s2, w.ret[1], w.ret)
                        a4 == Fabric_IdSet_add(s3, w.ret[1])
                    IN DeleteTail(a4.s, c, p.ret, w.ret, a4.status)

\* Stubs of IndexStore.c and Index.c: the class index is never built.
Fabric_IndexStore_get_class_index == [ret |-> NULL, status |-> FABRIC_OK]
Fabric_ClassIndex_get_class_id(name) == [ret |-> 0, status |-> FABRIC_OK]

\* `FABRIC_OK != status` at lines 230 and 235 compares the pointer status,
\* never NULL in a call that returns, with the null pointer constant.
StatusPointerIsSet == TRUE

\* Fabric_ClassStore_get_class_by_name(self, name, status)
Fabric_ClassStore_get_class_by_name(s, name) ==
    LET ci == Fabric_IndexStore_get_class_index IN
    IF StatusPointerIsSet THEN Ret(s, NULL, ci.status)
    ELSE LET id == Fabric_ClassIndex_get_class_id(name) IN
         IF StatusPointerIsSet THEN Ret(s, NULL, id.status)
         ELSE IF id.ret = 0 THEN Ret(s, NULL, FABRIC_CLASS_DOESNT_EXIST)
         ELSE Fabric_ClassStore_get_class(s, id.ret)

\* Fabric_ClassStore__next_id(self).  Reading the link of a cached NULL
\* entity dereferences NULL: CRASH.
Fabric_ClassStore__next_id(s) ==
    LET nf == s.next_free_id IN
    IF s.next_free_id = s.last_free_id THEN
        Ret([s EXCEPT !.next_free_id = U16(@ + 1), !.last_free_id = U16(@ + 1)], nf, FABRIC_OK)
    ELSE IF Fabric_EntityMap_has_key(s.cache, nf) THEN
        IF Fabric_EntityMap_get(s.cache, nf) = NULL THEN Ret(s, nf, CRASH)
        ELSE Ret([s EXCEPT !.next_free_id = Deref(s, Fabric_EntityMap_get(s.cache, nf)).parent_id],
                 nf, FABRIC_OK)
    ELSE
        Ret([s EXCEPT !.next_free_id = ReadSlot(s.disk, nf).parent_id], nf, FABRIC_OK)

\* Fabric_ClassStore_create_class(self, extends, name, is_abstract, status).
\* The lookup returns NULL and leaves *status at FABRIC_OK, so the call
\* ends at line 283.  Past line 284 the function allocates an id and calls
\* Fabric_LabelStore_add_label, whose own lookup returns NULL with status
\* OK as well (LabelStore.c:144), so that line 200 takes a reference on a
\* NULL label: CRASH.
Fabric_ClassStore_create_class(s, extends, name, is_abstract) ==
    LET r == Fabric_ClassStore_get_class_by_name(s, name) IN
    IF r.over THEN r
    ELSE IF r.ret # NULL THEN Ret(r.s, NULL, FABRIC_DUPLICATE_CLASSNAME)
    ELSE IF FABRIC_CLASS_DOESNT_EXIST # r.status THEN Ret(r.s, NULL, r.status)
    ELSE Ret(Fabric_ClassStore__next_id(r.s).s, NULL, CRASH)

\* Fabric_Graph_write_uint16(value, offset): the number a big-endian reader
\* finds afterwards.  The value goes through htobe32 and is then cut to 16
\* bits, which on a little-endian host keeps the two high (zero) bytes.
Fabric_Graph_write_uint16(v, le) ==
    IF le THEN Swap16(((v \div 65536) % 256) * 256 + (v \div 16777216)) ELSE U16(v)

\* ------------------------------------------------------------------ Init
\* The store is initialised (Fabric_ClassStore_init) from a well-formed
\* file: slots 1..MaxClasses have been written, class 1 is the root, each
\* other slot is a live class below an older live class (par[i] # 0) or a
\* freed slot (par[i] = 0).  Siblings are chained newest first, freed slots
\* are chained highest id first and the chain ends at the bump pointer.
InitShapes ==
    { par \in [2..MaxClasses -> 0..(MaxClasses - 1)] :
        \A i \in 2..MaxClasses :
            /\ par[i] < i
            /\ par[i] > 1 => par[par[i]] # 0 }

LiveOf(par) == {1} \cup { i \in 2..MaxClasses : par[i] # 0 }
FreeOf(par) == { i \in 2..MaxClasses : par[i] = 0 }
ParentOf(par, i) == IF i = 1 THEN 0 ELSE par[i]

MaxOf(S) == CHOOSE x \in S : \A y \in S : y <= x

\* The highest element of S below i, 0 when there is none.
Below(S, i) == LET T == { x \in S : x < i } IN IF T = {} THEN 0 ELSE MaxOf(T)

InitSlot(par, m, i) ==
    IF i \in LiveOf(par) THEN
        LET kids == { j \in LiveOf(par) : ParentOf(par, j) = i }
            sibs == { j \in LiveOf(par) : j # 1 /\ ParentOf(par, j) = ParentOf(par, i) }
        IN [label_id |-> 10 + i,
            parent_id |-> ParentOf(par, i),
            first_child_id |-> IF kids = {} THEN 0 ELSE MaxOf(kids),
            next_child_id |-> IF i = 1 THEN 0 ELSE Below(sibs, i),
            first_index_id |-> 0,
            count |-> IF i = m THEN 1 ELSE 0,
            is_abstract |-> 0,
            incrementer |-> 1]
    ELSE
        LET nxt == Below(FreeOf(par), i)
        IN [BlankSlot EXCEPT !.parent_id = IF nxt = 0 THEN MaxClasses + 1 ELSE nxt]

RECURSIVE DescSeq(_)
\* The elements of a finite set of numbers, highest first.
DescSeq(S) == IF S = {} THEN <<>> ELSE <<MaxOf(S)>> \o DescSeq(S \ {MaxOf(S)})

\* ------------------------------------------------------------ collections
\* 32-bit unsigned numbers are pairs <<high half, low half>> of 16-bit
\* numbers, so that the arithmetic of Hash.c stays inside the integers.
Half == 65536

Add32(a, b) ==
    LET lo == a[2] + b[2] IN <<(a[1] + b[1] + (lo \div Half)) % Half, lo % Half>>

\* a << n and a >> n for 0 < n < 16
Shl32(a, n) ==
    LET lo == a[2] * (2^n) IN <<(((a[1] * 2^n) % Half) + (lo \div Half)) % Half, lo % Half>>

Shr32(a, n) == <<a[1] \div (2^n), (a[2] \div (2^n)) + ((a[1] % (2^n)) * (2^(16 - n)))>>

RECURSIVE Xor16(_, _, _)
\* the exclusive or of the bits 0..i of x and y
Xor16(x, y, i) ==
    IF i < 0 THEN 0
    ELSE ((((x \div (2^i)) + (y \div (2^i))) % 2) * (2^i)) + Xor16(x, y, i - 1)

Xor32(a, b) == <<Xor16(a[1], b[1], 15), Xor16(a[2], b[2], 15)>>

\* The one element of a set of one element: every intermediate value of
\* hash() is computed once and then named, as the C variable is.
Only(S) == CHOOSE x \in S : TRUE

\* One round of the loop of hash() for the byte k.
HashRound(h, k) ==
    Only({ Xor32(h2, Shr32(h2, 6)) :
            h2 \in { Add32(h1, Shl32(h1, 10)) : h1 \in {Add32(h, <<0, k>>)} } })

\* hash(key, 4)
hash(key) ==
    Only({ Add32(h3, Shl32(h3, 15)) :
            h3 \in { Xor32(h2, Shr32(h2, 11)) :
             h2 \in { Add32(h1, Shl32(h1, 3)) :
              h1 \in { HashRound(h0, key[4]) :
               h0 \in { HashRound(g, key[3]) :
                g \in { HashRound(HashRound(<<0, 0>>, key[1]), key[2]) } } } } } })

\* The four bytes of a uint32_t in memory, on a little- and a big-endian host.
BytesOf(key, le) ==
    LET b0 == key % 256
        b1 == (key \div 256) % 256
        b2 == (key \div 65536) % 256
        b3 == key \div 16777216
    IN IF le THEN <<b0, b1, b2, b3>> ELSE <<b3, b2, b1, b0>>

\* hash_uint32(key)
hash_uint32(key, le) == hash(BytesOf(key, le))

\* The ids and keys that the callers of the collections use: 1..MaxIds.
MaxIds == 3

\* hash_uint32 of these, computed once.
Hashes == [le \in BOOLEAN |-> [key \in 1..MaxIds |-> hash_uint32(key, le)]]

\* hash_uint32(key) % cap, for a cap below 2^15
HashPos(key, le, cap) ==
    LET h == Hashes[le][key] IN (((h[1] % cap) * (Half % cap)) + (h[2] % cap)) % cap

\* ----------------------------------------------------------------- memory
\* The allocator's state: _fabric_mem_used, _fabric_mem_errno, and the
\* history of the blocks that malloc handed out and free has not taken back.
MemOf(used, errno, blks) == [used |-> used, errno |-> errno, blocks |-> blks]

RemoveBlock(blks, size) ==
    IF BagIn(size, blks) THEN blks (-) SetToBag({size}) ELSE blks

\* Fabric_memalloc(size); ok: malloc finds the memory
Fabric_memalloc(m, size, ok) ==
    LET used == m.used + size IN
    IF size < 1 THEN [m |-> MemOf(used, m.errno, m.blocks), ptr |-> FALSE]
    ELSE IF ~ ok THEN [m |-> MemOf(used, FABRIC_OUT_OF_MEMORY, m.blocks), ptr |-> FALSE]
    ELSE [m |-> MemOf(used, m.errno, m.blocks (+) SetToBag({size})), ptr |-> TRUE]

\* Fabric_memrealloc(old_ptr, new_size, old_size) of a block of old_size
\* bytes; ok: realloc finds the memory. A failed realloc leaves the old
\* block allocated.
Fabric_memrealloc(m, new_size, old_size, ok) ==
    LET used == m.used + new_size - old_size IN
    IF ok THEN
        [m |-> MemOf(used, m.errno,
                     IF new_size = 0 THEN RemoveBlock(m.blocks, old_size)
                     ELSE RemoveBlock(m.blocks, old_size) (+) SetToBag({new_size})),
         ptr |-> new_size # 0]
    ELSE [m |-> MemOf(used, IF new_size # 0 THEN FABRIC_OUT_OF_MEMORY ELSE m.errno, m.blocks),
          ptr |-> FALSE]

\* Fabric_memfree(ptr, size) of a block of block_size bytes
Fabric_memfree(m, block_size, size) ==
    MemOf(m.used - size, m.errno, RemoveBlock(m.blocks, block_size))

\* Fabric_memused()
Fabric_memused(m) == m.used

\* Fabric_memerrno()
Fabric_memerrno(m) == m.errno

\* The total size of the blocks of a bag.
RECURSIVE SizeOfBlocks(_)
SizeOfBlocks(blks) ==
    IF BagToSet(blks) = {} THEN 0
    ELSE LET b == CHOOSE x \in BagToSet(blks) : TRUE
         IN b + SizeOfBlocks(blks (-) SetToBag({b}))

\* sizeof(uint32_t)
SizeofId == 4

\* sizeof(IdSet), sizeof(EntityMap), sizeof(DynamicList): two ints and a pointer
SizeofHead(w) == 8 + w

\* sizeof(EntityMapEntry): a uint32_t and a pointer, padded to the pointer's alignment
SizeofEntry(w) == 2 * w

\* ------------------------------------------------------------------ IdSet
FABRIC_IDSET_MAXLOAD_NUM == 6
FABRIC_IDSET_MAXLOAD_DEN == 10

FABRIC_IDSET_TOMBSTONE == 286331153

\* (float)(count + 1) / (float)cap > 0.6
OverLoad(count, cap) == (count + 1) * FABRIC_IDSET_MAXLOAD_DEN > FABRIC_IDSET_MAXLOAD_NUM * cap

\* Fabric_IdSet_new_with_capacity(capacity, &status); ok1, ok2: the two allocations
IdSet_new_with_capacity(m, capacity, w, ok1, ok2) ==
    LET cap == IF capacity < 1 THEN FABRIC_IDSET_DEFAULT_CAPACITY ELSE capacity
        a1 == Fabric_memalloc(m, SizeofHead(w), ok1)
        a2 == Fabric_memalloc(a1.m, cap * SizeofId, ok2)
    IN IF ~ a1.ptr THEN [m |-> a1.m, set |-> NULL, status |-> Fabric_memerrno(a1.m)]
       ELSE IF ~ a2.ptr THEN
           LET m3 == Fabric_memfree(a2.m, SizeofHead(w), SizeofHead(w))
           IN [m |-> m3, set |-> NULL, status |-> Fabric_memerrno(m3)]
       ELSE [m |-> a2.m, set |-> [count |-> 0, cap |-> cap, ids |-> [i \in 1..cap |-> 0]],
             status |-> FABRIC_OK]

\* Fabric_IdSet_destroy(self)
IdSet_destroy(m, s, w) ==
    Fabric_memfree(Fabric_memfree(m, s.cap * SizeofId, s.cap * SizeofId),
                   SizeofHead(w), SizeofHead(w))

\* Fabric_IdSet_get_count(self)
IdSet_get_count(s) == s.count

\* Fabric_IdSet_is_empty(self)
IdSet_is_empty(s) == s.count <= 0

\* The results of the loop of Fabric_IdSet_has and Fabric_IdSet_remove.
NotFound == 0
Endless == -1

RECURSIVE IdSet__find(_, _, _, _, _)
\* The loop `while (self->ids[pos] != 0)`: the slot (counted from 1) that
\* holds id, NotFound when the loop reaches an empty slot first, Endless
\* when it has seen every slot and none is empty or holds id, so that it
\* goes round for ever. n: the slots not yet visited.
IdSet__find(ids, cap, pos, id, n) ==
    IF n = 0 THEN Endless
    ELSE IF ids[pos + 1] = 0 THEN NotFound
    ELSE IF ids[pos + 1] = id THEN pos + 1
    ELSE IdSet__find(ids, cap, (pos + 1) % cap, id, n - 1)

\* Fabric_IdSet_has(self, id)
IdSet_has(s, id, le) ==
    LET p == IdSet__find(s.ids, s.cap, HashPos(id, le, s.cap), id, s.cap)
    IN [hang |-> p = Endless, ret |-> p > 0]

RECURSIVE IdSet__free_slot(_, _, _, _)
\* The loop of Fabric_IdSet__add_no_checks: the first slot from pos that is
\* empty or a tombstone; Endless when there is none.
IdSet__free_slot(ids, cap, pos, n) ==
    IF n = 0 THEN Endless
    ELSE IF ids[pos + 1] = 0 \/ ids[pos + 1] = FABRIC_IDSET_TOMBSTONE THEN pos + 1
    ELSE IdSet__free_slot(ids, cap, (pos + 1) % cap, n - 1)

\* Fabric_IdSet__add_no_checks(self, id); its callers leave a free slot
IdSet__add_no_checks(s, id, le) ==
    LET p == IdSet__free_slot(s.ids, s.cap, HashPos(id, le, s.cap), s.cap)
    IN [s EXCEPT !.ids[p] = id, !.count = s.count + 1]

RECURSIVE IdSet__readd(_, _, _, _)
\* The loop of Fabric_IdSet__resize over old_data[i .. l-1]
IdSet__readd(s, old_data, i, le) ==
    IF i > Len(old_data) THEN s
    ELSE IF old_data[i] # 0 /\ old_data[i] # FABRIC_IDSET_TOMBSTONE
         THEN IdSet__readd(IdSet__add_no_checks(s, old_data[i], le), old_data, i + 1, le)
         ELSE IdSet__readd(s, old_data, i + 1, le)

\* Fabric_IdSet__resize(self, new_cap)
IdSet__resize(m, s, new_cap, le, ok) ==
    LET a == Fabric_memalloc(m, new_cap * SizeofId, ok) IN
    IF ~ a.ptr THEN [m |-> a.m, s |-> s, status |-> Fabric_memerrno(a.m)]
    ELSE [m |-> Fabric_memfree(a.m, s.cap * SizeofId, s.cap * SizeofId),
          s |-> IdSet__readd([count |-> 0, cap |-> new_cap, ids |-> [i \in 1..new_cap |-> 0]],
                             s.ids, 1, le),
          status |-> FABRIC_OK]

\* Fabric_IdSet_add(self, id); ok: the allocation of a resize succeeds
IdSet_add(m, s, id, le, ok) ==
    LET h == IdSet_has(s, id, le) IN
    IF h.hang THEN [m |-> m, s |-> s, status |-> HANG]
    ELSE IF h.ret THEN [m |-> m, s |-> s, status |-> FABRIC_OK]
    ELSE IF OverLoad(s.count, s.cap) THEN
        LET r == IdSet__resize(m, s, s.cap * 2, le, ok) IN
        IF r.status # FABRIC_OK THEN r
        ELSE [m |-> r.m, s |-> IdSet__add_no_checks(r.s, id, le), status |-> FABRIC_OK]
    ELSE [m |-> m, s |-> IdSet__add_no_checks(s, id, le), status |-> FABRIC_OK]

\* Fabric_IdSet_remove(self, id)
IdSet_remove(s, id, le) ==
    LET p == IdSet__find(s.ids, s.cap, HashPos(id, le, s.cap), id, s.cap) IN
    IF p = Endless THEN [s |-> s, status |-> HANG]
    ELSE IF p = NotFound THEN [s |-> s, status |-> FABRIC_OK]
    ELSE [s |-> [s EXCEPT !.ids[p] = FABRIC_IDSET_TOMBSTONE, !.count = s.count - 1],
          status |-> FABRIC_OK]

IdSet__skips_Mut(v) == v = 0

\* The test of the inner loop of Fabric_IdSet_to_array: the slot holds no id.
IdSet__skips(v) == v = 0 \/ v = FABRIC_IDSET_TOMBSTONE

RECURSIVE IdSet__collect(_, _, _)
\* The loops of Fabric_IdSet_to_array: the next n ids from slot i on that
\* are neither 0 nor the tombstone.
IdSet__collect(ids, i, n) ==
    IF n = 0 \/ i > Len(ids) THEN <<>>
    ELSE IF IdSet__skips(ids[i]) THEN IdSet__collect(ids, i + 1, n)
    ELSE <<ids[i]>> \o IdSet__collect(ids, i + 1, n - 1)

\* Fabric_IdSet_to_array(self, &status); ok: the allocation succeeds
IdSet_to_array(m, s, ok) ==
    LET a == Fabric_memalloc(m, SizeofId * s.count, ok) IN
    IF ~ a.ptr THEN [m |-> a.m, array |-> <<>>, null |-> TRUE, status |-> Fabric_memerrno(a.m)]
    ELSE [m |-> a.m, array |-> IdSet__collect(s.ids, 1, s.count), null |-> FALSE,
          status |-> FABRIC_OK]

\* -------------------------------------------------------------- EntityMap
FABRIC_ENTITYMAP_DEFAULT_CAPACITY == 32
FABRIC_ENTITYMAP_TOMBSTONE == 286331153

\* An entry of the table: {key, entity}; entity 0 is the null pointer.
EntryOf(key, entity) == [key |-> key, entity |-> entity]

\* Fabric_EntityMap_new_with_capacity(capacity, &status); ok1, ok2: the two
\* allocations. When the second fails, the map is freed as
\* sizeof(EntityMapEntry) bytes.
EntityMap_new_with_capacity(m, capacity, w, ok1, ok2) ==
    LET cap == IF capacity < 1 THEN FABRIC_ENTITYMAP_DEFAULT_CAPACITY ELSE capacity
        a1 == Fabric_memalloc(m, SizeofHead(w), ok1)
        a2 == Fabric_memalloc(a1.m, cap * SizeofEntry(w), ok2)
    IN IF ~ a1.ptr THEN [m |-> a1.m, map |-> NULL, status |-> Fabric_memerrno(a1.m)]
       ELSE IF ~ a2.ptr THEN
           LET m3 == Fabric_memfree(a2.m, SizeofHead(w), SizeofEntry(w))
           IN [m |-> m3, map |-> NULL, status |-> Fabric_memerrno(m3)]
       ELSE [m |-> a2.m,
             map |-> [count |-> 0, cap |-> cap, entries |-> [i \in 1..cap |-> EntryOf(0, 0)]],
             status |-> FABRIC_OK]

\* Fabric_EntityMap_destroy(self)
EntityMap_destroy(m, s, w) ==
    Fabric_memfree(Fabric_memfree(m, s.cap * SizeofEntry(w), s.cap * SizeofEntry(w)),
                   SizeofHead(w), SizeofHead(w))

\* Fabric_EntityMap_get_count(self)
EntityMap_get_count(s) == s.count

RECURSIVE EntityMap__find(_, _, _, _, _)
\* The loop `while (self->entries[pos].key != 0)`: the slot (counted from
\* 1) that holds key, NotFound when the loop reaches an empty slot first,
\* Endless when no slot is empty or holds key. n: the slots not yet visited.
EntityMap__find(entries, cap, pos, key, n) ==
    IF n = 0 THEN Endless
    ELSE IF entries[pos + 1].key = 0 THEN NotFound
    ELSE IF entries[pos + 1].key = key THEN pos + 1
    ELSE EntityMap__find(entries, cap, (pos + 1) % cap, key, n - 1)

\* Fabric_EntityMap__pos_of_key(self, key): a slot, counted from 1;
\* NotFound for the function's FABRIC_ENTITYMAP_TOMBSTONE; Endless when it
\* does not return
EntityMap__pos_of_key(s, key, le) ==
    EntityMap__find(s.entries, s.cap, HashPos(key, le, s.cap), key, s.cap)

\* Fabric_EntityMap_has_key(self, key)
EntityMap_has_key(s, key, le) ==
    LET p == EntityMap__pos_of_key(s, key, le) IN [hang |-> p = Endless, ret |-> p > 0]

RECURSIVE EntityMap__free_slot(_, _, _, _)
\* The loop of Fabric_EntityMap__add_no_checks
EntityMap__free_slot(entries, cap, pos, n) ==
    IF n = 0 THEN Endless
    ELSE IF entries[pos + 1].key = 0 \/ entries[pos + 1].key = FABRIC_ENTITYMAP_TOMBSTONE
         THEN pos + 1
    ELSE EntityMap__free_slot(entries, cap, (pos + 1) % cap, n - 1)

\* Fabric_EntityMap__add_no_checks(self, entry)
EntityMap__add_no_checks(s, entry, le) ==
    LET p == EntityMap__free_slot(s.entries, s.cap, HashPos(entry.key, le, s.cap), s.cap)
    IN [s EXCEPT !.entries[p] = entry, !.count = s.count + 1]

RECURSIVE EntityMap__readd(_, _, _, _)
\* The loop of Fabric_EntityMap__resize over old_data[i .. l-1]
EntityMap__readd(s, old_data, i, le) ==
    IF i > Len(old_data) THEN s
    ELSE IF old_data[i].key # 0 /\ old_data[i].key # FABRIC_ENTITYMAP_TOMBSTONE
         THEN EntityMap__readd(EntityMap__add_no_checks(s, old_data[i], le), old_data, i + 1, le)
         ELSE EntityMap__readd(s, old_data, i + 1, le)

\* Fabric_EntityMap__resize(self, new_cap)
EntityMap__resize(m, s, new_cap, w, le, ok) ==
    LET a == Fabric_memalloc(m, new_cap * SizeofEntry(w), ok) IN
    IF ~ a.ptr THEN [m |-> a.m, s |-> s, status |-> Fabric_memerrno(a.m)]
    ELSE [m |-> Fabric_memfree(a.m, s.cap * SizeofEntry(w), s.cap * SizeofEntry(w)),
          s |-> EntityMap__readd([count |-> 0, cap |-> new_cap,
                                  entries |-> [i \in 1..new_cap |-> EntryOf(0, 0)]],
                                 s.entries, 1, le),
          status |-> FABRIC_OK]

\* Fabric_EntityMap_set(self, key, entity); ok: the allocation of a resize succeeds
EntityMap_set(m, s, key, entity, w, le, ok) ==
    LET pos == EntityMap__pos_of_key(s, key, le) IN
    IF pos = Endless THEN [m |-> m, s |-> s, status |-> HANG]
    ELSE IF pos # NotFound THEN
        [m |-> m, s |-> [s EXCEPT !.entries[pos].entity = entity], status |-> FABRIC_OK]
    ELSE IF OverLoad(s.count, s.cap) THEN
        LET r == EntityMap__resize(m, s, s.cap * 2, w, le, ok) IN
        IF r.status # FABRIC_OK THEN r
        ELSE [m |-> r.m, s |-> EntityMap__add_no_checks(r.s, EntryOf(key, entity), le),
              status |-> FABRIC_OK]
    ELSE [m |-> m, s |-> EntityMap__add_no_checks(s, EntryOf(key, entity), le),
          status |-> FABRIC_OK]

\* Fabric_EntityMap_get(self, key)
EntityMap_get(s, key, le) ==
    LET pos == EntityMap__pos_of_key(s, key, le) IN
    [hang |-> pos = Endless, ret |-> IF pos > 0 THEN s.entries[pos].entity ELSE 0]

\* Fabric_EntityMap_unset(self, key)
EntityMap_unset(s, key, le) ==
    LET pos == EntityMap__pos_of_key(s, key, le) IN
    IF pos = Endless THEN [s |-> s, status |-> HANG]
    ELSE IF pos = NotFound THEN [s |-> s, status |-> FABRIC_OK]
    ELSE [s |-> [s EXCEPT !.entries[pos] = EntryOf(FABRIC_ENTITYMAP_TOMBSTONE, 0),
                          !.count = s.count - 1],
          status |-> FABRIC_OK]

\* ------------------------------------------------------------ DynamicList
FABRIC_DYNAMIC_LIST_MIN_CAP == 16

\* What a slot holds that malloc or realloc handed out and nobody wrote.
Junk == -1

\* Fabric_DynamicList_allocate()
Fabric_DynamicList_allocate(m, w, ok) == Fabric_memalloc(m, SizeofHead(w), ok)

\* Fabric_DynamicList_init_with_capacity(self, capacity)
Fabric_DynamicList_init_with_capacity(m, capacity, w, ok) ==
    LET cap == IF capacity > FABRIC_DYNAMIC_LIST_MIN_CAP THEN capacity
               ELSE FABRIC_DYNAMIC_LIST_MIN_CAP
        a == Fabric_memalloc(m, cap * w, ok)
    IN [m |-> a.m,
        s |-> [count |-> 0, cap |-> cap, list |-> IF a.ptr THEN [i \in 1..cap |-> Junk] ELSE <<>>],
        status |-> IF a.ptr THEN FABRIC_OK ELSE Fabric_memerrno(a.m)]

\* Fabric_DynamicList_destroy(self)
Fabric_DynamicList_destroy(m, s, w) ==
    Fabric_memfree(Fabric_memfree(m, s.cap * w, s.cap * w), SizeofHead(w), SizeofHead(w))

\* Fabric_DynamicList_change_capacity(self, new_capacity)
Fabric_DynamicList_change_capacity(m, s, new_capacity, w, ok) ==
    IF new_capacity < FABRIC_DYNAMIC_LIST_MIN_CAP THEN [m |-> m, s |-> s, status |-> FABRIC_OK]
    ELSE LET a == Fabric_memrealloc(m, new_capacity * w, s.cap * w, ok) IN
         IF ~ a.ptr THEN [m |-> a.m, s |-> s, status |-> Fabric_memerrno(a.m)]
         ELSE [m |-> a.m,
               s |-> [s EXCEPT !.cap = new_capacity,
                               !.list = [i \in 1..new_capacity |->
                                            IF i <= s.cap THEN s.list[i] ELSE Junk]],
               status |-> FABRIC_OK]

Fabric_DynamicList_at_Mut(s, pos) ==
    IF pos > s.count \/ pos < 0 THEN 0 ELSE s.list[pos + 1]

\* Fabric_DynamicList_at(self, pos); 0 is the null pointer
Fabric_DynamicList_at(s, pos) ==
    IF pos >= s.count \/ pos < 0 THEN 0 ELSE s.list[pos + 1]

\* Fabric_DynamicList_append(self, item); ok: realloc finds the memory
Fabric_DynamicList_append(m, s, item, w, ok) ==
    LET r == IF s.count >= s.cap
             THEN Fabric_DynamicList_change_capacity(m, s, s.cap * 2, w, ok)
             ELSE [m |-> m, s |-> s, status |-> FABRIC_OK]
    IN IF r.status # FABRIC_OK THEN r
       ELSE [m |-> r.m,
             s |-> [r.s EXCEPT !.list[r.s.count + 1] = item, !.count = r.s.count + 1],
             status |-> FABRIC_OK]

\* Fabric_DynamicList_remove_last(self)
Fabric_DynamicList_remove_last(s) ==
    IF s.count <= 0 THEN [s |-> s, status |-> FABRIC_OK]
    ELSE [s |-> [s EXCEPT !.count = s.count - 1], status |-> FABRIC_OK]

\* Fabric_DynamicList_count(self)
Fabric_DynamicList_count(s) == s.count

\* Fabric_DynamicList_new(&status); ok1, ok2: the two allocations
Fabric_DynamicList_new(m, w, ok1, ok2) ==
    LET a == Fabric_DynamicList_allocate(m, w, ok1) IN
    IF ~ a.ptr THEN [m |-> a.m, s |-> NULL, status |-> Fabric_memerrno(a.m)]
    ELSE LET i == Fabric_DynamicList_init_with_capacity(a.m, FABRIC_DYNAMIC_LIST_MIN_CAP, w, ok2)
         IN IF i.status # FABRIC_OK
            THEN [m |-> Fabric_memfree(i.m, SizeofHead(w), SizeofHead(w)), s |-> NULL,
                  status |-> i.status]
            ELSE i


\* ------------------------------------------------------------ Label store
MaxLabels == 2

FABRIC_LABEL_STORAGE_SIZE == 8
FABRIC_LABELSTORE_HEADER_SIZE == 12
FABRIC_LABELSTORE_ERROR == 512
\* The two status codes get_label assigns; Internal.h does not define them,
\* they are numbered after the class store's.
FABRIC_LABELSTORE_INVALID_ID == FABRIC_LABELSTORE_ERROR + 1
FABRIC_LABEL_DOESNT_EXIST == FABRIC_LABELSTORE_ERROR + 2

\* label_store.offset = class_store.offset + the size of the class region
LabelStoreOffset == ClassStoreOffset + ClassStoreSize

\* self->size = vertex_store.offset - label_store.offset: a label region of
\* MaxLabels + 1 slots, the last never written.
LabelStoreSize == FABRIC_LABELSTORE_HEADER_SIZE + (MaxLabels + 1) * FABRIC_LABEL_STORAGE_SIZE

Fabric_LabelStore__get_id_offset(label_id) ==
    (label_id - 1) * FABRIC_LABEL_STORAGE_SIZE + LabelStoreOffset + FABRIC_LABELSTORE_HEADER_SIZE

\* The number of label slots that lie inside the label region.
LabelMaxId == (LabelStoreSize - FABRIC_LABELSTORE_HEADER_SIZE) \div FABRIC_LABEL_STORAGE_SIZE

\* The ids whose slot get_label is willing to read (the test of line 114).
LabelReadable(label_id) ==
    ~ (Fabric_LabelStore__get_id_offset(label_id) > LabelStoreSize + LabelStoreOffset
       \/ label_id < 1)

LabelSlots == { i \in 1..(LabelMaxId + 2) : LabelReadable(i) }

BlankLabel == [text_id |-> 0, refs |-> 0]

\* The entry of the label cache for an id that has no label object.
NoLabel == [text_id |-> ABSENT, refs |-> ABSENT]

\* "if it's text id is 0 then it is not in use"
Fabric_Label_is_in_use(l) == l.text_id # 0

\* Fabric_Label_init: the two big-endian words of the slot
Fabric_Label_init(data) == [text_id |-> data.text_id, refs |-> data.refs]

Fabric_Label_add_ref(l) == [l EXCEPT !.refs = @ + 1]

\* Fabric_LabelStore_get_label; a label object is named by its id, 0 is the
\* NULL pointer; mem = 0: the allocation of Fabric_Label_new fails.
Fabric_LabelStore_get_label(s, label_id, mem) ==
    LET label == IF label_id \in DOMAIN s.cache THEN s.cache[label_id] ELSE NoLabel IN
    IF label # NoLabel THEN
        IF ~ Fabric_Label_is_in_use(label)
        THEN [s |-> s, ret |-> 0, status |-> FABRIC_LABEL_DOESNT_EXIST]
        ELSE [s |-> s, ret |-> label_id, status |-> FABRIC_OK]
    ELSE IF ~ LabelReadable(label_id) THEN
        [s |-> s, ret |-> 0, status |-> FABRIC_LABELSTORE_INVALID_ID]
    ELSE IF mem = 0 THEN
        [s |-> s, ret |-> 0, status |-> FABRIC_OUT_OF_MEMORY]
    ELSE
        LET obj == Fabric_Label_init(s.disk[label_id])
            s2  == [s EXCEPT !.cache[label_id] = obj]
        IN IF ~ Fabric_Label_is_in_use(obj)
           THEN [s |-> s2, ret |-> 0, status |-> FABRIC_LABEL_DOESNT_EXIST]
           ELSE [s |-> s2, ret |-> label_id, status |-> FABRIC_OK]

\* Fabric_LabelStore_flush: "TODO: this is a stub"
Fabric_LabelStore_flush(s) == [s |-> s, status |-> FABRIC_OK]

\* The label as the store has it: the cached object, else the slot on disk.
LabelView(s, label_id) ==
    IF s.cache[label_id] # NoLabel THEN s.cache[label_id] ELSE s.disk[label_id]

\* Stub of IndexStore.c: the label index is never built.
Fabric_IndexStore_get_label_index == [ret |-> 0, status |-> FABRIC_OK]

\* The lookup of a name in the label index: the id of the label in use whose
\* text is name, or 0.  A name is written as the id of its text.
Fabric_LabelIndex_get_label_id(s, name) ==
    LET ids == { i \in 1..LabelMaxId : LabelView(s, i).text_id = name } IN
    [ret |-> IF ids = {} THEN 0 ELSE MaxOf(ids), status |-> FABRIC_OK]

\* Fabric_LabelStore_get_label_by_name: the tests of lines 144 and 149
\* compare the pointer status with FABRIC_OK, as in the class store.
Fabric_LabelStore_get_label_by_name(s, name, mem) ==
    LET li == Fabric_IndexStore_get_label_index IN
    IF StatusPointerIsSet THEN [s |-> s, ret |-> 0, status |-> li.status]
    ELSE LET id == Fabric_LabelIndex_get_label_id(s, name) IN
         IF StatusPointerIsSet THEN [s |-> s, ret |-> 0, status |-> id.status]
         ELSE IF id.ret = 0 THEN [s |-> s, ret |-> 0, status |-> FABRIC_LABEL_DOESNT_EXIST]
         ELSE Fabric_LabelStore_get_label(s, id.ret, mem)

\* Fabric_LabelStore_add_label(self, name, status).  In the branch of a name
\* that does not exist yet *status is FABRIC_LABEL_DOESNT_EXIST when line 174
\* tests it against FABRIC_OK: the call returns 0 there.  In the branch of
\* an existing name Fabric_Label_add_ref writes through label, and a NULL
\* label ends the program.  Fabric_EntityMap_set finds the key of a cached
\* label and allocates nothing.
Fabric_LabelStore_add_label(s, name, mem) ==
    LET r == Fabric_LabelStore_get_label_by_name(s, name, mem) IN
    IF r.status = FABRIC_LABEL_DOESNT_EXIST THEN
        [s |-> r.s, ret |-> 0, status |-> r.status]
    ELSE IF r.status # FABRIC_OK THEN
        [s |-> r.s, ret |-> 0, status |-> r.status]
    ELSE IF r.ret = 0 THEN
        [s |-> r.s, ret |-> 0, status |-> CRASH]
    ELSE
        LET next_id == r.ret
            s1 == [r.s EXCEPT !.cache[next_id] = Fabric_Label_add_ref(@)]
            a  == Fabric_IdSet_add([changed |-> s1.changed, changed_cap |-> s1.changed_cap,
                                    mem |-> mem], next_id)
        IN [s |-> [s1 EXCEPT !.changed = a.s.changed, !.changed_cap = a.s.changed_cap],
            ret |-> next_id, status |-> a.status]

\* Fabric_LabelStore_remove_label: "TODO: This is a stub"
Fabric_LabelStore_remove_label_of(s, label_id) == [s |-> s, status |-> FABRIC_OK]

\* The label region in which the labels of live are in use with one
\* reference each and the other slots are chained as the free list; the slot
\* after the region holds bytes of the next store (beyond: its first word).
LabelDisk(live, beyond) ==
    [i \in LabelSlots |->
        IF i \in live THEN [text_id |-> 20 + i, refs |-> 1]
        ELSE IF i <= MaxLabels THEN
            LET nxt == Below((1..MaxLabels) \ live, i)
            IN [text_id |-> 0, refs |-> IF nxt = 0 THEN MaxLabels + 1 ELSE nxt]
        ELSE IF i > LabelMaxId THEN [text_id |-> beyond, refs |-> 0]
        ELSE BlankLabel]

\* The label store after Fabric_LabelStore_init on such a region, and after
\* the labels of used were given one more reference in memory
\* (Fabric_Label_add_ref on the cached label, the id added to changed).
LabelStoreOf(live, used, beyond) ==
    LET d    == LabelDisk(live, beyond)
        free == (1..MaxLabels) \ live
    IN [disk |-> d,
        num_labels |-> Cardinality(live),
        next_free_id |-> IF free = {} THEN MaxLabels + 1 ELSE MaxOf(free),
        last_free_id |-> MaxLabels + 1,
        cache |-> [i \in LabelSlots |->
                     IF i \in used THEN Fabric_Label_add_ref(Fabric_Label_init(d[i]))
                     ELSE NoLabel],
        changed |-> used,
        changed_cap |-> FABRIC_IDSET_DEFAULT_CAPACITY]

\* ------------------------------------------------- the graph file's header
\* (uint8_t)fgetc at or after the end of the file: (uint8_t)EOF.
EofByte == 255

FABRIC_VERSION_NUMBER == 1
MIN_PAGE_SIZE == 65536
INDEX_PAGE_SIZE == 65536
FABRIC_TEXT_BLOCK_SIZE == 32
FABRIC_HEADER_SIZE == 84

\* FABRIC_HEADER_STRING: "fabricdb v0.1" and three NULs, as character codes.
FABRIC_HEADER_STRING == <<102, 97, 98, 114, 105, 99, 100, 98, 32, 118, 48, 46, 49, 0, 0, 0>>

\* A uint32_t or uint16_t of the header code is kept as its bytes, the most
\* significant first, so that every 32-bit value has a representation.
Word(n) == <<n \div 16777216, (n \div 65536) % 256, (n \div 256) % 256, n % 256>>

Rev(b) == [i \in 1..Len(b) |-> b[Len(b) + 1 - i]]

\* The bytes that hold a value in the host's memory, in address order; the
\* same reversal gives the value that bytes in memory hold.
InMemory(v, le) == IF le THEN Rev(v) ELSE v

\* htobe32, betoh32, betoh16: a byte swap on a little-endian host, nothing on
\* a big-endian one.
htobe(v, le) == IF le THEN Rev(v) ELSE v

\* Fabric_Graph_write_bytes at a given offset: fseek, then fputc of each
\* byte; a gap past the old end of the file reads as zeros.
Fabric_Graph_write_bytes(f, bytes, offset) ==
    LET n == IF offset + Len(bytes) > Len(f) THEN offset + Len(bytes) ELSE Len(f)
    IN [i \in 1..n |-> IF i > offset /\ i <= offset + Len(bytes) THEN bytes[i - offset]
                       ELSE IF i <= Len(f) THEN f[i]
                       ELSE 0]

\* Fabric_Graph_read_bytes at a given offset.
Fabric_Graph_read_bytes(f, num_bytes, offset) ==
    [i \in 1..num_bytes |-> IF offset + i <= Len(f) THEN f[offset + i] ELSE EofByte]

Fabric_Graph_write_uint32(f, value, offset, le) ==
    LET network_order_value == htobe(value, le)
    IN Fabric_Graph_write_bytes(f, InMemory(network_order_value, le), offset)

\* Without the conversion from the file's byte order.
Fabric_Graph_read_uint32_Mut(f, offset, le) ==
    InMemory(Fabric_Graph_read_bytes(f, 4, offset), le)

Fabric_Graph_read_uint32(f, offset, le) ==
    htobe(InMemory(Fabric_Graph_read_bytes(f, 4, offset), le), le)

Fabric_Graph_read_uint16(f, offset, le) ==
    htobe(InMemory(Fabric_Graph_read_bytes(f, 2, offset), le), le)

\* The two bytes Fabric_Graph_write_uint16 puts in the file for a value.
WrittenHalf(value, le) ==
    LET n == Fabric_Graph_write_uint16(value[1] * 256 + value[2], le)
    IN <<n \div 256, n % 256>>

\* The uint32_t fields of the header in the order of the file, the first at
\* offset 32.
HeaderFields == <<"fabric_version_number", "application_version_number",
                  "file_change_counter", "class_store_offset", "label_store_offset",
                  "vertex_store_offset", "edge_store_offset", "property_store_offset",
                  "text_store_offset", "text_block_size", "index_store_offset",
                  "index_page_size", "index_page_count">>

FieldOffset(k) == 32 + 4 * (k - 1)

\* Fabric_Graph_write_header: the two strings, then each field where the
\* previous write ended.
RECURSIVE WriteFields(_, _, _, _)
WriteFields(f, g, k, le) ==
    IF k > Len(HeaderFields) THEN f
    ELSE WriteFields(Fabric_Graph_write_uint32(f, g[HeaderFields[k]], FieldOffset(k), le),
                     g, k + 1, le)

Fabric_Graph_write_header(f, g, le) ==
    WriteFields(Fabric_Graph_write_bytes(
                    Fabric_Graph_write_bytes(f, g.fabric_header_string, 0),
                    g.application_header_string, 16),
                g, 1, le)

\* The layout of a class in its 21 bytes: field, offset, size.
ClassLayout == << <<"label_id", 0, 4>>, <<"parent_id", 4, 2>>, <<"first_child_id", 6, 2>>,
                  <<"next_child_id", 8, 2>>, <<"first_index_id", 10, 2>>, <<"count", 12, 4>>,
                  <<"is_abstract", 16, 1>>, <<"incrementer", 17, 4>> >>

\* Fabric_Class_load_bytes on a Class whose fields are kept as bytes, the
\* most significant first: each field's bytes as they lie in memory.
Fabric_Class_load_bytes_dest(self, le) ==
    [i \in 1..FABRIC_CLASS_STORAGE_SIZE |->
        LET k == Only({ j \in 1..Len(ClassLayout) :
                        i > ClassLayout[j][2] /\ i <= ClassLayout[j][2] + ClassLayout[j][3] })
        IN InMemory(self[ClassLayout[k][1]], le)[i - ClassLayout[k][2]]]

\* Fabric_Class_init on 21 bytes: betoh32 or betoh16 of what lies at each
\* field's offset; is_abstract is the byte itself.
Fabric_Class_init_data(data, le) ==
    [name \in { ClassLayout[j][1] : j \in 1..Len(ClassLayout) } |->
        LET k == Only({ j \in 1..Len(ClassLayout) : ClassLayout[j][1] = name })
            bytes == SubSeq(data, ClassLayout[k][2] + 1, ClassLayout[k][2] + ClassLayout[k][3])
        IN IF name = "is_abstract" THEN bytes ELSE htobe(InMemory(bytes, le), le)]

\* The stores of a Graph object.
StoreNames == {"class", "label", "vertex", "edge", "property", "text", "index"}

\* Fabric_create_graph: the Graph object it fills in and the file it leaves;
\* no store is initialized.
Fabric_create_graph(f, le) ==
    LET class_offset    == FABRIC_HEADER_SIZE
        label_offset    == class_offset + MIN_PAGE_SIZE
        vertex_offset   == label_offset + MIN_PAGE_SIZE
        edge_offset     == vertex_offset + MIN_PAGE_SIZE
        property_offset == edge_offset + MIN_PAGE_SIZE
        text_offset     == property_offset + MIN_PAGE_SIZE
        index_offset    == text_offset + MIN_PAGE_SIZE
        g == [fabric_header_string       |-> FABRIC_HEADER_STRING,
              application_header_string  |-> [i \in 1..16 |-> 0],
              fabric_version_number      |-> Word(FABRIC_VERSION_NUMBER),
              application_version_number |-> Word(0),
              file_change_counter        |-> Word(1),
              class_store_offset         |-> Word(class_offset),
              label_store_offset         |-> Word(label_offset),
              vertex_store_offset        |-> Word(vertex_offset),
              edge_store_offset          |-> Word(edge_offset),
              property_store_offset      |-> Word(property_offset),
              text_store_offset          |-> Word(text_offset),
              text_block_size            |-> Word(FABRIC_TEXT_BLOCK_SIZE),
              index_store_offset         |-> Word(index_offset),
              index_page_size            |-> Word(INDEX_PAGE_SIZE),
              index_page_count           |-> Word(0),
              stores                     |-> {}]
    IN [graph |-> g, file |-> Fabric_Graph_write_header(f, g, le)]

\* Fabric_Graph_init: the Graph object read from the file and the value
\* returned; every store is initialized, whatever was read.
Fabric_Graph_init(f, le) ==
    [graph |-> [name \in {"fabric_header_string", "application_header_string", "stores"}
                         \cup { HeaderFields[k] : k \in 1..Len(HeaderFields) } |->
                  CASE name = "fabric_header_string" -> Fabric_Graph_read_bytes(f, 16, 0)
                    [] name = "application_header_string" -> Fabric_Graph_read_bytes(f, 16, 16)
                    [] name = "stores" -> StoreNames
                    [] OTHER -> Fabric_Graph_read_uint32(
                                    f, FieldOffset(Only({ k \in 1..Len(HeaderFields) :
                                                          HeaderFields[k] = name })), le)],
     ret |-> 0]

\* No Graph object has been filled in.
NoGraph == [stores |-> {}]

\* The specifications of the stores do not follow the file header.
HeaderIdle ==
    /\ file = <<>>
    /\ hdr = NoGraph

\* No collection has been made and no block allocated.
LibIdle ==
    /\ set = [count |-> 0, cap |-> 0, ids |-> <<>>]
    /\ map = [count |-> 0, cap |-> 0, entries |-> <<>>]
    /\ list = [count |-> 0, cap |-> 0, list |-> <<>>]
    /\ fabric_mem_used = 0
    /\ fabric_mem_errno = FABRIC_OK
    /\ blocks = EmptyBag
    /\ ptr_size = 8
    /\ abs = {}

NoCall == [op |-> "init", id |-> 0, gen |-> 0, name |-> 0, status |-> FABRIC_OK,
           wrote |-> {}]

\* The store right after Fabric_ClassStore_init on such a file.
InitFile ==
    /\ hostLE = "any"
    /\ \E par \in InitShapes : \E m \in {0, MaxOf(LiveOf(par))} :
        /\ disk = [i \in Slots |-> IF i <= MaxClasses THEN InitSlot(par, m, i) ELSE BlankSlot]
        /\ num_classes = Cardinality(LiveOf(par))
        /\ next_free_id = (IF FreeOf(par) = {} THEN MaxClasses + 1 ELSE MaxOf(FreeOf(par)))
        /\ freed = DescSeq(FreeOf(par))
    /\ last_free_id = MaxClasses + 1
    /\ dheader = [num |-> num_classes, next |-> next_free_id, last |-> last_free_id]
    /\ heap = [i \in Slots |-> <<>>]
    /\ cache = [i \in Slots |-> ABSENT]
    /\ changed_cap = FABRIC_IDSET_DEFAULT_CAPACITY
    /\ file_change_counter = 1
    /\ last = NoCall
    /\ HeaderIdle

Init ==
    /\ InitFile
    /\ LibIdle
    /\ changed = {}
    /\ label_store = LabelStoreOf({}, {}, 0)

\* The number of ids the table of the changed set takes before
\* Fabric_IdSet_add has to double it.
LoadLimit == (6 * FABRIC_IDSET_DEFAULT_CAPACITY) \div 10

\* A store in which classes were allocated past the end of the class region
\* (ids above max_id) and are waiting for the flush that reports
\* FABRIC_CLASSSTORE_NEEDS_RESIZE: the changed set starts with as many such
\* ids as its table takes without growing.
InitDirty ==
    /\ InitFile
    /\ LibIdle
    /\ changed = (max_id + 1)..(max_id + LoadLimit)
    /\ label_store = LabelStoreOf({}, {}, 0)

\* A store whose label region holds labels, some of them referenced once
\* more in memory than on disk and waiting in the label store's changed set.
InitLabel ==
    /\ InitFile
    /\ LibIdle
    /\ changed = {}
    /\ \E live \in SUBSET (1..MaxLabels) : \E used \in SUBSET live : \E beyond \in {0, 1} :
          label_store = LabelStoreOf(live, used, beyond)

\* A file in which class i is named by label i and the label region holds
\* exactly the labels of the live classes, one reference each: the file a
\* store with consistent reference counts has written.
InitRefs ==
    /\ hostLE = "any"
    /\ \E par \in { p \in InitShapes : LiveOf(p) \subseteq 1..MaxLabels } :
        /\ disk = [i \in Slots |->
                     IF i > MaxClasses THEN BlankSlot
                     ELSE IF i \in LiveOf(par) THEN [InitSlot(par, 0, i) EXCEPT !.label_id = i]
                     ELSE InitSlot(par, 0, i)]
        /\ num_classes = Cardinality(LiveOf(par))
        /\ next_free_id = (IF FreeOf(par) = {} THEN MaxClasses + 1 ELSE MaxOf(FreeOf(par)))
        /\ freed = DescSeq(FreeOf(par))
        /\ label_store = LabelStoreOf(LiveOf(par), {}, 0)
    /\ last_free_id = MaxClasses + 1
    /\ dheader = [num |-> num_classes, next |-> next_free_id, last |-> last_free_id]
    /\ heap = [i \in Slots |-> <<>>]
    /\ cache = [i \in Slots |-> ABSENT]
    /\ changed = {}
    /\ changed_cap = FABRIC_IDSET_DEFAULT_CAPACITY
    /\ file_change_counter = 1
    /\ LibIdle
    /\ last = NoCall
    /\ HeaderIdle

\* Fabric_Graph_read_bytes at or after the end of the file: fgetc returns
\* EOF and the byte stored is (uint8_t)EOF = 0xFF.  A 16-bit field read there
\* is 0xFFFF; a 32-bit field is 0xFFFFFFFF, written here as the highest
\* number the checker's integers have (the model only tests it against 0).
EofHalf == 65535
EofWord == 2147483647

EofSlot == [label_id |-> EofWord, parent_id |-> EofHalf, first_child_id |-> EofHalf,
            next_child_id |-> EofHalf, first_index_id |-> EofHalf, count |-> EofWord,
            is_abstract |-> EofByte, incrementer |-> EofWord]

\* The graph after Fabric_create_graph, which writes the 84 bytes of the
\* file header and no store ("TODO: Initialize stores"), and Fabric_load_graph
\* of that file: Fabric_ClassStore_init and Fabric_LabelStore_init read their
\* counters, and later every slot, past the end of the file.
\* The stores of a graph that Fabric_create_graph made and Fabric_load_graph
\* opened.
FreshStores ==
    /\ disk = [i \in Slots |-> EofSlot]
    /\ dheader = [num |-> EofHalf, next |-> EofHalf, last |-> EofHalf]
    /\ num_classes = dheader.num
    /\ next_free_id = dheader.next
    /\ last_free_id = dheader.last
    /\ heap = [i \in Slots |-> <<>>]
    /\ cache = [i \in Slots |-> ABSENT]
    /\ changed = {}
    /\ changed_cap = FABRIC_IDSET_DEFAULT_CAPACITY
    /\ file_change_counter = 1
    /\ label_store = [disk |-> [i \in LabelSlots |-> [text_id |-> EofWord, refs |-> EofWord]],
                      num_labels |-> EofHalf,
                      next_free_id |-> EofHalf,
                      last_free_id |-> EofHalf,
                      cache |-> [i \in LabelSlots |-> NoLabel],
                      changed |-> {},
                      changed_cap |-> FABRIC_IDSET_DEFAULT_CAPACITY]
    /\ freed = <<>>
    /\ last = NoCall

FreshGraph ==
    /\ FreshStores
    /\ HeaderIdle

InitFresh ==
    /\ hostLE = "any"
    /\ FreshGraph
    /\ LibIdle

\* The variables of the store take the values of s.
Becomes(s) ==
    /\ disk' = s.disk
    /\ num_classes' = s.num_classes
    /\ next_free_id' = s.next_free_id
    /\ last_free_id' = s.last_free_id
    /\ heap' = s.heap
    /\ cache' = s.cache
    /\ changed' = s.changed
    /\ changed_cap' = s.changed_cap

\* --------------------------------------------------------------- actions
\* A call that crashed has ended the program.  A flush that reported
\* FABRIC_CLASSSTORE_NEEDS_RESIZE is followed by the growth of the class
\* region, which this code does not have: the run ends there as well.
Running == last.status \notin {CRASH, HANG, BUSY, FABRIC_CLASSSTORE_NEEDS_RESIZE}

\* The caller looks a class up by id (Fabric_ClassStore_get_class).  A call
\* that finds the class in the cache, rejects the id or runs out of memory
\* leaves the store as it is, and is a stuttering step.
GetClass ==
    /\ Running
    /\ \E class_id \in 0..(max_id + 2) :
        LET r == Fabric_ClassStore_get_class(Store, class_id) IN
        /\ ~ r.over
        /\ r.s # Store
        /\ Becomes(r.s)
        /\ UNCHANGED <<hostLE, dheader, file_change_counter, label_store, lib, file, hdr, freed, last>>

\* The objects the caller can pass to the store: pointers that get_class
\* returned, or would have returned had the caller asked before the store
\* loaded the class for itself.  get_class returns in-use classes only.
Held == { r \in Slots \X (1..MaxGen) :
            r[2] <= Len(heap[r[1]]) /\ Fabric_Class_is_in_use(heap[r[1]][r[2]]) }

\* The caller deletes the class object c (Fabric_ClassStore_delete_class);
\* malloc fails after m allocations.
DeleteClassOf(c, m) ==
    LET r == Fabric_ClassStore_delete_class(StoreWith(m), c) IN
    /\ ~ r.over
    /\ Becomes(r.s)
    /\ freed' = IF r.status = FABRIC_OK THEN <<c[1]>> \o freed ELSE freed
    /\ last' = [op |-> "delete_class", id |-> c[1], gen |-> c[2], name |-> 0,
                status |-> r.status, wrote |-> {}]
    /\ UNCHANGED <<hostLE, dheader, file_change_counter, label_store, lib, file, hdr>>

DeleteClass ==
    /\ Running
    /\ \E c \in Held : \E m \in {NoFail, 0, 1} : DeleteClassOf(c, m)

\* The names a caller asks for, written as the id of the label that holds
\* the text: the name of the root class and a name no class has.
RootName == 11
FreshName == 99
Names == {RootName, FreshName}

\* The caller creates a class below extends (Fabric_ClassStore_create_class).
CreateClassOf(extends, name, is_abstract) ==
    LET r == Fabric_ClassStore_create_class(Store, extends, name, is_abstract) IN
    /\ ~ r.over
    /\ Becomes(r.s)
    /\ last' = [op |-> "create_class", id |-> 0, gen |-> 0,
                name |-> name, status |-> r.status, wrote |-> {}]
    /\ UNCHANGED <<hostLE, dheader, file_change_counter, label_store, lib, file, hdr, freed>>

CreateClass ==
    /\ Running
    /\ \E extends \in Held : \E name \in Names : \E is_abstract \in {0, 1} :
        CreateClassOf(extends, name, is_abstract)

\* Fabric_ClassStore_flush(self).  Fabric_IdSet_to_array yields the changed
\* ids in table order, which the model leaves open: when some id cannot be
\* written (beyond max_id, or cached as NULL so that load_bytes
\* dereferences NULL), any set W of the others was written before it.
FlushWrite(d, W, le) ==
    [i \in DOMAIN d |->
        IF i \in W THEN Fabric_Class_load_bytes(heap[i][cache[i]], le) ELSE d[i]]

\* The ids of S removed one by one (line 124).
RECURSIVE RemoveAll(_, _)
RemoveAll(S, W) ==
    IF W = {} THEN S
    ELSE LET id == CHOOSE x \in W : TRUE
         IN RemoveAll(Fabric_IdSet_remove(S, id), W \ {id})

\* An emptiness test that never answers TRUE.
Fabric_IdSet_is_empty_Mut(S) == Cardinality(S) < 0

Fabric_IdSet_is_empty(S) == Cardinality(S) <= 0

\* wrote: the slots the call wrote, 0 standing for the header.
FlushCall(status, wrote) ==
    [op |-> "flush", id |-> 0, gen |-> 0, name |-> 0, status |-> status, wrote |-> wrote]

Flush ==
    /\ Running
    /\ UNCHANGED <<num_classes, next_free_id, last_free_id, heap, cache,
                   changed_cap, file_change_counter, label_store, lib, file, hdr, freed>>
    /\ IF Fabric_IdSet_is_empty(changed) THEN
           /\ last' = FlushCall(FABRIC_OK, {})
           /\ UNCHANGED <<hostLE, disk, dheader, changed>>
       ELSE
           \/ \* Fabric_IdSet_to_array: malloc failed
              /\ last' = FlushCall(FABRIC_OUT_OF_MEMORY, {})
              /\ UNCHANGED <<hostLE, disk, dheader, changed>>
           \/ \E h \in (IF hostLE = "any" THEN {"le", "be"} ELSE {hostLE}) :
                LET over == { id \in changed : id > max_id }
                    nul  == { id \in changed \ over : Fabric_EntityMap_get(cache, id) = NULL }
                IN
                IF over \cup nul = {} THEN
                    /\ disk' = FlushWrite(disk, changed, h = "le")
                    /\ changed' = RemoveAll(changed, changed)
                    /\ dheader' = [num  |-> Fabric_Graph_write_uint16(num_classes, h = "le"),
                                   next |-> Fabric_Graph_write_uint16(next_free_id, h = "le"),
                                   last |-> Fabric_Graph_write_uint16(next_free_id, h = "le")]
                    /\ hostLE' = h
                    /\ last' = FlushCall(FABRIC_OK, changed \cup {0})
                ELSE
                    \* the first id that cannot be written is beyond max_id
                    \* (line 111) or has no object (line 117)
                    \E st \in {FABRIC_CLASSSTORE_NEEDS_RESIZE : id \in over} \cup {CRASH : id \in nul} :
                    \E W \in SUBSET (changed \ (over \cup nul)) :
                        /\ disk' = FlushWrite(disk, W, h = "le")
                        /\ changed' = RemoveAll(changed, W)
                        /\ hostLE' = IF W = {} THEN hostLE ELSE h
                        /\ last' = FlushCall(st, W)
                        /\ UNCHANGED dheader

\* Fabric_LabelStore_get_label(&graph->label_store, label_id, &status)
GetLabel ==
    /\ Running
    /\ \E label_id \in 0..(LabelMaxId + 2) :
        LET r == Fabric_LabelStore_get_label(label_store, label_id, NoFail) IN
        /\ r.s # label_store
        /\ label_store' = r.s
    /\ UNCHANGED <<hostLE, disk, dheader, num_classes, next_free_id, last_free_id,
                   heap, cache, changed, changed_cap, file_change_counter, lib, file, hdr, freed, last>>

\* Fabric_LabelStore_flush(&graph->label_store)
LabelFlush ==
    /\ Running
    /\ LET r == Fabric_LabelStore_flush(label_store) IN
        /\ label_store' = r.s
        /\ last' = [op |-> "label_flush", id |-> 0, gen |-> 0, name |-> 0,
                    status |-> r.status, wrote |-> {}]
    /\ UNCHANGED <<hostLE, disk, dheader, num_classes, next_free_id, last_free_id,
                   heap, cache, changed, changed_cap, file_change_counter, lib, file, hdr, freed>>

\* The names given to add_label: the text of label 1 and a text no label has.
LabelNames == {21, 99}

\* Fabric_LabelStore_add_label(&graph->label_store, name, &status)
AddLabelOf(name, mem) ==
    /\ LET r == Fabric_LabelStore_add_label(label_store, name, mem) IN
        /\ label_store' = r.s
        /\ last' = [op |-> "add_label", id |-> r.ret, gen |-> 0, name |-> name,
                    status |-> r.status, wrote |-> {}]
    /\ UNCHANGED <<hostLE, disk, dheader, num_classes, next_free_id, last_free_id,
                   heap, cache, changed, changed_cap, file_change_counter, lib, file, hdr, freed>>

AddLabel ==
    /\ Running
    /\ \E name \in LabelNames : \E mem \in {NoFail, 0} : AddLabelOf(name, mem)

\* Fabric_LabelStore_remove_label(&graph->label_store, label_id)
RemoveLabelOf(label_id) ==
    /\ LET r == Fabric_LabelStore_remove_label_of(label_store, label_id) IN
        /\ label_store' = r.s
        /\ last' = [op |-> "remove_label", id |-> label_id, gen |-> 0, name |-> 0,
                    status |-> r.status, wrote |-> {}]
    /\ UNCHANGED <<hostLE, disk, dheader, num_classes, next_free_id, last_free_id,
                   heap, cache, changed, changed_cap, file_change_counter, lib, file, hdr, freed>>

RemoveLabel ==
    /\ Running
    /\ \E label_id \in 1..LabelMaxId : RemoveLabelOf(label_id)

Next == GetClass \/ DeleteClass \/ CreateClass \/ Flush

Spec == Init /\ [][Next]_vars

NextDirty == GetClass \/ DeleteClass \/ Flush

SpecDirty == InitDirty /\ [][NextDirty]_vars

NextLabel == GetLabel \/ LabelFlush \/ Flush \/ AddLabel \/ RemoveLabel

SpecLabel == InitLabel /\ [][NextLabel]_vars

NextRefs == GetClass \/ DeleteClass \/ CreateClass \/ Flush \/ GetLabel

SpecRefs == InitRefs /\ [][NextRefs]_vars

NextFresh == GetClass \/ DeleteClass \/ CreateClass \/ Flush \/ GetLabel \/ LabelFlush

SpecFresh == InitFresh /\ [][NextFresh]_vars

\* ------------------------------------------------ the collections' callers
\* What the callers of the collections and of the allocator leave alone.
graph == <<hostLE, disk, dheader, num_classes, next_free_id, last_free_id, heap,
           cache, changed, changed_cap, file_change_counter, label_store, file, hdr,
           freed>>

Mem == MemOf(fabric_mem_used, fabric_mem_errno, blocks)

MemBecomes(m) ==
    /\ fabric_mem_used' = m.used
    /\ fabric_mem_errno' = m.errno
    /\ blocks' = m.blocks

\* Whether malloc may succeed, may fail. A run is followed up to its first
\* failed allocation and on from there with allocations that succeed:
\* _fabric_mem_errno is never reset, so it tells that one has failed.
Oks == IF fabric_mem_errno = FABRIC_OK THEN {TRUE, FALSE} ELSE {TRUE}

\* A call on a collection or on the allocator.
LibCall(op, id, status, ret) ==
    [op |-> op, id |-> id, gen |-> 0, name |-> 0, status |-> status, wrote |-> ret]

\* The entities a caller puts in a map, the items it appends to a list.
Entities == {1, 2}

\* IdSet *set = Fabric_IdSet_new_with_capacity(1, &status) on a little- or
\* a big-endian host: the smallest table, which the first add doubles.
InitIdSet ==
    /\ hostLE \in {"le", "be"}
    /\ FreshGraph
    /\ ptr_size = 8
    /\ LET r == IdSet_new_with_capacity(MemOf(0, FABRIC_OK, EmptyBag), 1, ptr_size, TRUE, TRUE)
       IN /\ set = r.set
          /\ fabric_mem_used = r.m.used
          /\ fabric_mem_errno = r.m.errno
          /\ blocks = r.m.blocks
    /\ map = [count |-> 0, cap |-> 0, entries |-> <<>>]
    /\ list = [count |-> 0, cap |-> 0, list |-> <<>>]
    /\ abs = {}

\* Fabric_IdSet_add(set, id)
IdSetAdd ==
    /\ Running
    /\ \E id \in 1..MaxIds : \E ok \in Oks :
        LET r == IdSet_add(Mem, set, id, hostLE = "le", ok) IN
        /\ set' = r.s
        /\ MemBecomes(r.m)
        /\ abs' = (IF r.status = FABRIC_OK THEN abs \cup {id} ELSE abs)
        /\ last' = LibCall("idset_add", id, r.status, {})
    /\ UNCHANGED <<graph, map, list, ptr_size>>

\* Fabric_IdSet_remove(set, id)
IdSetRemove ==
    /\ Running
    /\ \E id \in 1..MaxIds :
        LET r == IdSet_remove(set, id, hostLE = "le") IN
        /\ set' = r.s
        /\ abs' = (IF r.status = FABRIC_OK THEN abs \ {id} ELSE abs)
        /\ last' = LibCall("idset_remove", id, r.status, {})
    /\ UNCHANGED <<graph, map, list, ptr_size, fabric_mem_used, fabric_mem_errno, blocks>>

\* Fabric_IdSet_has(set, id); last.wrote holds the answer
IdSetHas ==
    /\ Running
    /\ \E id \in 1..MaxIds :
        LET r == IdSet_has(set, id, hostLE = "le") IN
        last' = LibCall("idset_has", id, IF r.hang THEN HANG ELSE FABRIC_OK, {r.ret})
    /\ UNCHANGED <<graph, lib>>

\* array = Fabric_IdSet_to_array(set, &status), and the caller's
\* Fabric_memfree(array, count * sizeof(uint32_t)) once it has read the
\* array, as in TestIdSet.c; last.wrote holds the array, last.id tells
\* whether it is a null pointer.
IdSetToArray ==
    /\ Running
    /\ \E ok \in Oks :
        LET r == IdSet_to_array(Mem, set, ok)
            size == set.count * SizeofId
        IN
        /\ MemBecomes(IF r.null THEN r.m ELSE Fabric_memfree(r.m, size, size))
        /\ last' = LibCall("idset_to_array", IF r.null THEN 0 ELSE 1, r.status, r.array)
    /\ UNCHANGED <<graph, set, map, list, ptr_size, abs>>

NextIdSet == IdSetAdd \/ IdSetRemove \/ IdSetHas \/ IdSetToArray

SpecIdSet == InitIdSet /\ [][NextIdSet]_vars

\* EntityMap *map = Fabric_EntityMap_new_with_capacity(1, &status) on a
\* little- or a big-endian host.
InitMap ==
    /\ hostLE \in {"le", "be"}
    /\ FreshGraph
    /\ ptr_size = 8
    /\ LET r == EntityMap_new_with_capacity(MemOf(0, FABRIC_OK, EmptyBag), 1, ptr_size, TRUE, TRUE)
       IN /\ map = r.map
          /\ fabric_mem_used = r.m.used
          /\ fabric_mem_errno = r.m.errno
          /\ blocks = r.m.blocks
    /\ set = [count |-> 0, cap |-> 0, ids |-> <<>>]
    /\ list = [count |-> 0, cap |-> 0, list |-> <<>>]
    /\ abs = <<>>

\* Fabric_EntityMap_set(map, key, entity)
MapSet ==
    /\ Running
    /\ \E key \in 1..MaxIds : \E entity \in Entities : \E ok \in Oks :
        LET r == EntityMap_set(Mem, map, key, entity, ptr_size, hostLE = "le", ok) IN
        /\ map' = r.s
        /\ MemBecomes(r.m)
        /\ abs' = (IF r.status # FABRIC_OK THEN abs
                   ELSE [k \in DOMAIN abs \cup {key} |-> IF k = key THEN entity ELSE abs[k]])
        /\ last' = LibCall("map_set", key, r.status, {})
    /\ UNCHANGED <<graph, set, list, ptr_size>>

\* Fabric_EntityMap_unset(map, key)
MapUnset ==
    /\ Running
    /\ \E key \in 1..MaxIds :
        LET r == EntityMap_unset(map, key, hostLE = "le") IN
        /\ map' = r.s
        /\ abs' = (IF r.status # FABRIC_OK THEN abs
                   ELSE [k \in DOMAIN abs \ {key} |-> abs[k]])
        /\ last' = LibCall("map_unset", key, r.status, {})
    /\ UNCHANGED <<graph, set, list, ptr_size, fabric_mem_used, fabric_mem_errno, blocks>>

\* Fabric_EntityMap_get(map, key); last.wrote holds the answer
MapGet ==
    /\ Running
    /\ \E key \in 1..MaxIds :
        LET r == EntityMap_get(map, key, hostLE = "le") IN
        last' = LibCall("map_get", key, IF r.hang THEN HANG ELSE FABRIC_OK, {r.ret})
    /\ UNCHANGED <<graph, lib>>

NextMap == MapSet \/ MapUnset \/ MapGet

SpecMap == InitMap /\ [][NextMap]_vars

\* The number of calls of a run on a list.
MaxListOps == 4

RECURSIVE Appended(_, _, _, _)
\* The list s after n more appends, of the items 1, 2, 1, 2, ...
Appended(m, s, n, w) ==
    IF n = 0 THEN [m |-> m, s |-> s]
    ELSE LET r == Fabric_DynamicList_append(m, s, 1 + (s.count % 2), w, TRUE)
         IN Appended(r.m, r.s, n - 1, w)

\* list = Fabric_DynamicList_allocate(); Fabric_DynamicList_init(list); and
\* then no append, or as many appends as leave one free slot, or as fill
\* the list.
InitList ==
    /\ hostLE \in {"le", "be"}
    /\ FreshGraph
    /\ ptr_size \in {4, 8}
    /\ \E n \in {0, FABRIC_DYNAMIC_LIST_MIN_CAP - 1, FABRIC_DYNAMIC_LIST_MIN_CAP} :
        LET a == Fabric_DynamicList_allocate(MemOf(0, FABRIC_OK, EmptyBag), ptr_size, TRUE)
            i == Fabric_DynamicList_init_with_capacity(a.m, FABRIC_DYNAMIC_LIST_MIN_CAP,
                                                       ptr_size, TRUE)
            r == Appended(i.m, i.s, n, ptr_size)
        IN /\ list = r.s
           /\ abs = [k \in 1..n |-> r.s.list[k]]
           /\ fabric_mem_used = r.m.used
           /\ fabric_mem_errno = r.m.errno
           /\ blocks = r.m.blocks
    /\ set = [count |-> 0, cap |-> 0, ids |-> <<>>]
    /\ map = [count |-> 0, cap |-> 0, entries |-> <<>>]

\* A call on the list: last.gen counts the calls, last.id is the count of
\* the list before the call, last.name the position asked for.
ListCall(op, pos, status, ret) ==
    [op |-> op, id |-> list.count, gen |-> last.gen + 1, name |-> pos, status |-> status,
     wrote |-> ret]

\* Fabric_DynamicList_append(list, item)
ListAppend ==
    /\ Running
    /\ last.gen < MaxListOps
    /\ \E item \in Entities : \E ok \in Oks :
        LET r == Fabric_DynamicList_append(Mem, list, item, ptr_size, ok) IN
        /\ list' = r.s
        /\ MemBecomes(r.m)
        /\ abs' = (IF r.status = FABRIC_OK THEN Append(abs, item) ELSE abs)
        /\ last' = ListCall("list_append", 0, r.status, {})
    /\ UNCHANGED <<graph, set, map, ptr_size>>

\* Fabric_DynamicList_remove_last(list)
ListRemoveLast ==
    /\ Running
    /\ last.gen < MaxListOps
    /\ LET r == Fabric_DynamicList_remove_last(list) IN
        /\ list' = r.s
        /\ abs' = (IF abs = <<>> THEN abs ELSE SubSeq(abs, 1, Len(abs) - 1))
        /\ last' = ListCall("list_remove_last", 0, r.status, {})
    /\ UNCHANGED <<graph, set, map, ptr_size, fabric_mem_used, fabric_mem_errno, blocks>>

\* Fabric_DynamicList_at(list, pos); last.wrote holds the answer
ListAt ==
    /\ Running
    /\ last.gen < MaxListOps
    /\ \E pos \in {-1, 0, list.count - 1, list.count, list.cap} :
        last' = ListCall("list_at", pos, FABRIC_OK, {Fabric_DynamicList_at(list, pos)})
    /\ UNCHANGED <<graph, lib>>

NextList == ListAppend \/ ListRemoveLast \/ ListAt

SpecList == InitList /\ [][NextList]_vars

\* The sizes a caller asks the allocator for, and the number of blocks it
\* holds at a time.
MemSizes == {0, 8, 24}
MaxBlocks == 2

\* Fabric_meminit() on a 32- or a 64-bit build; no collection exists. abs:
\* the blocks that the caller holds itself (the others belong to the
\* collections).
InitMemory ==
    /\ hostLE \in {"le", "be"}
    /\ FreshGraph
    /\ ptr_size \in {4, 8}
    /\ fabric_mem_used = 0
    /\ fabric_mem_errno = FABRIC_OK
    /\ blocks = EmptyBag
    /\ set = [count |-> 0, cap |-> 0, ids |-> <<>>]
    /\ map = [count |-> 0, cap |-> 0, entries |-> <<>>]
    /\ list = [count |-> 0, cap |-> 0, list |-> <<>>]
    /\ abs = EmptyBag

\* ptr = Fabric_memalloc(size)
MemAlloc ==
    /\ Running
    /\ BagCardinality(abs) < MaxBlocks
    /\ \E size \in MemSizes : \E ok \in Oks :
        LET a == Fabric_memalloc(Mem, size, ok) IN
        /\ MemBecomes(a.m)
        /\ abs' = (IF a.ptr THEN abs (+) SetToBag({size}) ELSE abs)
        /\ last' = LibCall("memalloc", size, Fabric_memerrno(a.m), {})
    /\ UNCHANGED <<graph, set, map, list, ptr_size>>

\* ptr = Fabric_memrealloc(ptr, new_size, old_size) of a block the caller
\* holds; when realloc fails the caller keeps the old block.
MemRealloc ==
    /\ Running
    /\ \E old_size \in BagToSet(abs) : \E new_size \in MemSizes \ {0} : \E ok \in Oks :
        LET a == Fabric_memrealloc(Mem, new_size, old_size, ok) IN
        /\ MemBecomes(a.m)
        /\ abs' = (IF ~ a.ptr THEN abs
                   ELSE (abs (-) SetToBag({old_size})) (+) SetToBag({new_size}))
        /\ last' = LibCall("memrealloc", new_size, Fabric_memerrno(a.m), {})
    /\ UNCHANGED <<graph, set, map, list, ptr_size>>

\* Fabric_memfree(ptr, size) of a block the caller holds, with its size
MemFree ==
    /\ Running
    /\ \E size \in BagToSet(abs) :
        /\ MemBecomes(Fabric_memfree(Mem, size, size))
        /\ abs' = abs (-) SetToBag({size})
        /\ last' = LibCall("memfree", size, fabric_mem_errno, {})
    /\ UNCHANGED <<graph, set, map, list, ptr_size>>

\* set = Fabric_IdSet_new_with_capacity(1, &status)
MemNewSet ==
    /\ Running
    /\ set.cap = 0
    /\ \E ok1 \in Oks : \E ok2 \in Oks :
        LET r == IdSet_new_with_capacity(Mem, 1, ptr_size, ok1, ok2) IN
        /\ ok1 \/ ok2
        /\ MemBecomes(r.m)
        /\ set' = (IF r.status = FABRIC_OK THEN r.set ELSE set)
        /\ last' = LibCall("idset_new", 1, r.status, {})
    /\ UNCHANGED <<graph, map, list, ptr_size, abs>>

\* map = Fabric_EntityMap_new_with_capacity(1, &status)
MemNewMap ==
    /\ Running
    /\ map.cap = 0
    /\ \E ok1 \in Oks : \E ok2 \in Oks :
        LET r == EntityMap_new_with_capacity(Mem, 1, ptr_size, ok1, ok2) IN
        /\ ok1 \/ ok2
        /\ MemBecomes(r.m)
        /\ map' = (IF r.status = FABRIC_OK THEN r.map ELSE map)
        /\ last' = LibCall("map_new", 1, r.status, {})
    /\ UNCHANGED <<graph, set, list, ptr_size, abs>>

\* list = Fabric_DynamicList_new(&status)
MemNewList ==
    /\ Running
    /\ list.cap = 0
    /\ \E ok1 \in Oks : \E ok2 \in Oks :
        LET r == Fabric_DynamicList_new(Mem, ptr_size, ok1, ok2) IN
        /\ ok1 \/ ok2
        /\ MemBecomes(r.m)
        /\ list' = (IF r.status = FABRIC_OK THEN r.s ELSE list)
        /\ last' = LibCall("list_new", 0, r.status, {})
    /\ UNCHANGED <<graph, set, map, ptr_size, abs>>

\* Fabric_IdSet_destroy(set), Fabric_EntityMap_destroy(map) or
\* Fabric_DynamicList_destroy(list)
MemDestroy ==
    /\ Running
    /\ \/ /\ set.cap # 0
          /\ MemBecomes(IdSet_destroy(Mem, set, ptr_size))
          /\ set' = [count |-> 0, cap |-> 0, ids |-> <<>>]
          /\ last' = LibCall("idset_destroy", 0, fabric_mem_errno, {})
          /\ UNCHANGED <<map, list>>
       \/ /\ map.cap # 0
          /\ MemBecomes(EntityMap_destroy(Mem, map, ptr_size))
          /\ map' = [count |-> 0, cap |-> 0, entries |-> <<>>]
          /\ last' = LibCall("map_destroy", 0, fabric_mem_errno, {})
          /\ UNCHANGED <<set, list>>
       \/ /\ list.cap # 0
          /\ MemBecomes(Fabric_DynamicList_destroy(Mem, list, ptr_size))
          /\ list' = [count |-> 0, cap |-> 0, list |-> <<>>]
          /\ last' = LibCall("list_destroy", 0, fabric_mem_errno, {})
          /\ UNCHANGED <<set, map>>
    /\ UNCHANGED <<graph, ptr_size, abs>>

NextMemory ==
    MemAlloc \/ MemRealloc \/ MemFree \/ MemNewSet \/ MemNewMap \/ MemNewList \/ MemDestroy

SpecMemory == InitMemory /\ [][NextMemory]_vars

\* ------------------------------------------------- the graph file's callers
\* The calls one run makes on the graph file.
MaxHeaderOps == 3

\* The values a caller writes: a uint32_t and a uint16_t as bytes, the most
\* significant first.
Words == {<<1, 2, 3, 4>>, <<255, 0, 128, 7>>}
Halves == {<<1, 2>>, <<255, 0>>}

\* Where a caller writes and reads: on the signature, and right after the
\* header where the class region starts.
Offsets == {0, FABRIC_HEADER_SIZE}

\* A file that some other program wrote: 84 bytes that do not start with
\* the signature.
ForeignFile == [i \in 1..FABRIC_HEADER_SIZE |-> IF i = 1 THEN 70 ELSE i % 7]

\* What the callers of the graph file leave alone, with lib.
stores == <<hostLE, disk, dheader, num_classes, next_free_id, last_free_id, heap,
            cache, changed, changed_cap, file_change_counter, label_store, freed>>

HeaderCall(op, offset, value, status, ret) ==
    [op |-> op, id |-> offset, gen |-> last.gen + 1, name |-> value, status |-> status,
     wrote |-> ret]

\* fopen(file_name, "w+b") of a new file, or "r+b" of a file that is no
\* graph, on a little- or a big-endian host.
InitHeader ==
    /\ hostLE \in {"le", "be"}
    /\ FreshStores
    /\ LibIdle
    /\ file \in {<<>>, ForeignFile}
    /\ hdr = NoGraph

\* Fabric_create_graph(graph_file, &graph)
CreateGraph ==
    /\ last.gen < MaxHeaderOps
    /\ LET r == Fabric_create_graph(file, hostLE = "le") IN
        /\ file' = r.file
        /\ hdr' = r.graph
        /\ last' = HeaderCall("create_graph", 0, <<>>, FABRIC_OK, <<>>)
    /\ UNCHANGED <<stores, lib>>

\* Fabric_load_graph(graph_file, &graph): the status is what
\* Fabric_Graph_init returns.
LoadGraph ==
    /\ last.gen < MaxHeaderOps
    /\ LET r == Fabric_Graph_init(file, hostLE = "le") IN
        /\ hdr' = r.graph
        /\ last' = HeaderCall("load_graph", 0, <<>>, r.ret, <<>>)
    /\ UNCHANGED <<stores, lib, file>>

\* Fabric_Graph_write_uint32(graph, value, offset)
WriteUint32 ==
    /\ last.gen < MaxHeaderOps
    /\ \E value \in Words : \E offset \in Offsets :
        /\ file' = Fabric_Graph_write_uint32(file, value, offset, hostLE = "le")
        /\ last' = HeaderCall("write_uint32", offset, value, FABRIC_OK, <<>>)
    /\ UNCHANGED <<stores, lib, hdr>>

\* Fabric_Graph_write_uint16(graph, value, offset)
WriteUint16 ==
    /\ last.gen < MaxHeaderOps
    /\ \E value \in Halves : \E offset \in Offsets :
        /\ file' = Fabric_Graph_write_bytes(file, WrittenHalf(value, hostLE = "le"), offset)
        /\ last' = HeaderCall("write_uint16", offset, value, FABRIC_OK, <<>>)
    /\ UNCHANGED <<stores, lib, hdr>>

\* Fabric_Graph_read_uint32(graph, offset)
ReadUint32 ==
    /\ last.gen < MaxHeaderOps
    /\ \E offset \in Offsets :
        last' = HeaderCall("read_uint32", offset, <<>>, FABRIC_OK,
                           Fabric_Graph_read_uint32(file, offset, hostLE = "le"))
    /\ UNCHANGED <<stores, lib, file, hdr>>

\* Fabric_Graph_read_uint16(graph, offset)
ReadUint16 ==
    /\ last.gen < MaxHeaderOps
    /\ \E offset \in Offsets :
        last' = HeaderCall("read_uint16", offset, <<>>, FABRIC_OK,
                           Fabric_Graph_read_uint16(file, offset, hostLE = "le"))
    /\ UNCHANGED <<stores, lib, file, hdr>>

\* The classes a caller stores: the one of test_class, one whose bytes all
\* differ, and the blank one.
ClassValues ==
    { [label_id |-> <<0, 0, 0, 9>>, parent_id |-> <<0, 1>>, first_child_id |-> <<0, 4>>,
       next_child_id |-> <<0, 0>>, first_index_id |-> <<0, 16>>, count |-> <<0, 0, 0, 35>>,
       is_abstract |-> <<0>>, incrementer |-> <<0, 0, 0, 37>>],
      [label_id |-> <<1, 2, 3, 4>>, parent_id |-> <<5, 6>>, first_child_id |-> <<7, 8>>,
       next_child_id |-> <<9, 10>>, first_index_id |-> <<11, 12>>, count |-> <<13, 14, 15, 16>>,
       is_abstract |-> <<1>>, incrementer |-> <<18, 19, 20, 21>>],
      [label_id |-> <<0, 0, 0, 0>>, parent_id |-> <<0, 0>>, first_child_id |-> <<0, 0>>,
       next_child_id |-> <<0, 0>>, first_index_id |-> <<0, 0>>, count |-> <<0, 0, 0, 0>>,
       is_abstract |-> <<0>>, incrementer |-> <<0, 0, 0, 0>>] }

\* Fabric_Class_load_bytes(class, write_data) and the write of the 21 bytes
\* to the slot of class 1, as Fabric_ClassStore_flush does.
WriteClass ==
    /\ last.gen < MaxHeaderOps
    /\ \E c \in ClassValues :
        /\ file' = Fabric_Graph_write_bytes(file, Fabric_Class_load_bytes_dest(c, hostLE = "le"),
                                            Fabric_ClassStore__get_id_offset(1))
        /\ last' = HeaderCall("load_bytes", 1, c, FABRIC_OK, <<>>)
    /\ UNCHANGED <<stores, lib, hdr>>

\* The read of the 21 bytes of the slot of class 1 and Fabric_Class_init(c,
\* data), as Fabric_ClassStore_get_class does.
ReadClass ==
    /\ last.gen < MaxHeaderOps
    /\ last' = HeaderCall("class_init", 1, <<>>, FABRIC_OK,
                          Fabric_Class_init_data(
                              Fabric_Graph_read_bytes(file, FABRIC_CLASS_STORAGE_SIZE,
                                                      Fabric_ClassStore__get_id_offset(1)),
                              hostLE = "le"))
    /\ UNCHANGED <<stores, lib, file, hdr>>

NextHeader ==
    \/ CreateGraph \/ LoadGraph \/ WriteUint32 \/ WriteUint16 \/ ReadUint32 \/ ReadUint16
    \/ WriteClass \/ ReadClass

SpecHeader == InitHeader /\ [][NextHeader]_vars

\* ------------------------------------------------------ what the store sees
\* The record of class id as the store has it: the cached object, or the
\* slot on disk when no object is cached for the id.
View(id) ==
    IF Fabric_EntityMap_get(cache, id) # NULL
    THEN heap[id][cache[id]]
    ELSE ReadSlot(disk, id)

ViewNext(id) ==
    IF Fabric_EntityMap_get(cache', id) # NULL
    THEN heap'[id][cache'[id]]
    ELSE ReadSlot(disk', id)

Live == { id \in Slots : Fabric_Class_is_in_use(View(id)) }

\* The ids from id on along next-sibling, at most fuel of them.
RECURSIVE Chain(_, _)
Chain(id, fuel) ==
    IF id = 0 \/ fuel = 0 THEN <<>>
    ELSE <<id>> \o Chain(View(id).next_child_id, fuel - 1)

RECURSIVE ChainNext(_, _)
ChainNext(id, fuel) ==
    IF id = 0 \/ fuel = 0 THEN <<>>
    ELSE <<id>> \o ChainNext(ViewNext(id).next_child_id, fuel - 1)

Fuel == Cardinality(Slots) + 1

\* The child chain of class p before and after a step.
Children(p) == Chain(View(p).first_child_id, Fuel)
ChildrenNext(p) == ChainNext(ViewNext(p).first_child_id, Fuel)

Range(q) == { q[i] : i \in 1..Len(q) }

\* q without its entries equal to x.
RECURSIVE Without(_, _)
Without(q, x) ==
    IF q = <<>> THEN <<>>
    ELSE (IF Head(q) = x THEN <<>> ELSE <<Head(q)>>) \o Without(Tail(q), x)

StoreVars == <<disk, dheader, num_classes, next_free_id, last_free_id, heap, cache,
               changed, changed_cap>>

\* The object c as the caller holds it.
Obj(c) == heap[c[1]][c[2]]

\* What Fabric_ClassStore_get_class answers for id after the step.
GetNext(id) ==
    Fabric_ClassStore_get_class(
        [disk |-> disk', num_classes |-> num_classes', next_free_id |-> next_free_id',
         last_free_id |-> last_free_id', heap |-> heap', cache |-> cache',
         changed |-> changed', changed_cap |-> changed_cap', mem |-> NoFail], id)

Mems == {NoFail, 0, 1}

\* A step that is the call delete_class(c) sets last to that call, so the
\* properties of delete steps look at the object named in last' only.
\* ------------------------------------------------------------------ C1
\* C1: when delete_class returns OK for a live class C without children and
\* members, afterwards C's label id is 0 (a lookup of C.id by id yields no
\* class and 'class does not exist'), next_free_id is C.id and num_classes
\* is one less than before.
C1_DeleteFreesClass ==
    [][ \A c \in Held \cap {<<last'.id, last'.gen>>} : \A m \in Mems :
          (DeleteClassOf(c, m) /\ last'.status = FABRIC_OK) =>
              /\ ViewNext(c[1]).label_id = 0
              /\ GetNext(c[1]).ret = NULL
              /\ GetNext(c[1]).status = FABRIC_CLASS_DOESNT_EXIST
              /\ next_free_id' = c[1]
              /\ num_classes' = num_classes - 1 ]_vars

\* ------------------------------------------------------------------ C2
\* C2: when delete_class returns OK for a class C that is not the first
\* child of its parent, the sibling P whose next-sibling was C.id has C's
\* old next-sibling afterwards, and the parent's child chain is the old one
\* without C.
C2_DeleteSplicesSibling ==
    [][ \A c \in Held \cap {<<last'.id, last'.gen>>} : \A m \in Mems :
          (/\ DeleteClassOf(c, m)
           /\ last'.status = FABRIC_OK
           /\ View(Obj(c).parent_id).first_child_id # c[1]) =>
              LET par == Obj(c).parent_id IN
              /\ \A P \in Slots :
                    View(P).next_child_id = c[1] /\ P \in Range(Children(par)) =>
                        ViewNext(P).next_child_id = Obj(c).next_child_id
              /\ ChildrenNext(par) = Without(Children(par), c[1]) ]_vars

\* ------------------------------------------------------------------ C3
\* C3: in every reachable state the child chain of every live class P ends
\* at 0 and holds only live classes whose parent is P, and every live class
\* but the root is in the chain of its parent exactly once and in no other
\* chain.
Occurrences(c) ==
    { pi \in Live \X (1..Fuel) : pi[2] <= Len(Children(pi[1])) /\ Children(pi[1])[pi[2]] = c }

C3_HierarchyIsTree ==
    /\ \A P \in Live :
          /\ Len(Children(P)) < Fuel
          /\ \A i \in 1..Len(Children(P)) :
                /\ Children(P)[i] \in Live
                /\ View(Children(P)[i]).parent_id = P
    /\ \A c \in Live \ {1} :
          /\ Cardinality(Occurrences(c)) = 1
          /\ \A pi \in Occurrences(c) : pi[1] = View(c).parent_id

\* ------------------------------------------------------------------ C4
\* C4: in every reachable state, following parent ids from any live class
\* reaches the root class (id 1) within as many steps as there are live
\* classes.
RECURSIVE ReachesRoot(_, _)
ReachesRoot(id, fuel) ==
    IF id = 1 THEN TRUE
    ELSE IF fuel = 0 \/ id \notin Slots THEN FALSE
    ELSE ReachesRoot(View(id).parent_id, fuel - 1)

C4_ParentsReachRoot ==
    \A c \in Live : ReachesRoot(c, Cardinality(Live))

\* ------------------------------------------------------------------ C5
\* C5: in every reachable state num_classes is the number of live classes
\* (records whose label id is not 0).
C5_NumClassesCountsLive ==
    num_classes = Cardinality(Live)

\* ------------------------------------------------------------------ C6
\* The free list from id on: the parent-id links, read from the cached class
\* or else from disk, up to last_free_id.  A walk of more links than there
\* are slots does not end; it is closed with -1.
RECURSIVE FreeChain(_, _)
FreeChain(id, fuel) ==
    IF id = last_free_id THEN <<>>
    ELSE IF fuel = 0 THEN <<-1>>
    ELSE <<id>> \o FreeChain(View(id).parent_id, fuel - 1)

\* C6: in every reachable state the walk from next_free_id along the
\* parent-id links ends at last_free_id and passes exactly the freed ids,
\* the most recently deleted first.
C6_FreeListIsLifo ==
    FreeChain(next_free_id, Fuel) = freed

\* A delete has just pushed an id on a free list that was not empty.
C6_Witness ==
    /\ last.op = "delete_class"
    /\ last.status = FABRIC_OK
    /\ Len(freed) >= 2
    /\ freed[1] = last.id
    /\ next_free_id = last.id

\* ------------------------------------------------------------------ C7
\* C7: after a create_class below `extends` that reports success, there is a
\* new live class whose parent is extends.id and whose next-sibling is the
\* old first child of extends, and the first child of extends is the new
\* class.
C7_CreateLinksFirstChild ==
    [][ \A extends \in Held : \A name \in Names : \A is_abstract \in {0, 1} :
          (CreateClassOf(extends, name, is_abstract) /\ last'.status = FABRIC_OK) =>
              \E n \in Slots :
                  /\ ~ Fabric_Class_is_in_use(View(n))
                  /\ Fabric_Class_is_in_use(ViewNext(n))
                  /\ ViewNext(n).parent_id = extends[1]
                  /\ ViewNext(n).next_child_id = View(extends[1]).first_child_id
                  /\ ViewNext(extends[1]).first_child_id = n ]_vars

\* ------------------------------------------------------------------ C8
\* C8: delete_class on a class with a first child fails with 'can't delete:
\* has children' and leaves hierarchy, num_classes, free list, cache and
\* dirty set as they were.
C8_DeleteWithChildrenRefused ==
    [][ \A c \in Held \cap {<<last'.id, last'.gen>>} : \A m \in Mems :
          (Obj(c).first_child_id # 0 /\ DeleteClassOf(c, m)) =>
              /\ last'.status = FABRIC_CANT_DELETE_CLASS_HAS_CHILDREN
              /\ UNCHANGED StoreVars
              /\ UNCHANGED freed ]_vars

\* A delete of a class with a child has just been refused.
C8_Witness ==
    /\ last.op = "delete_class"
    /\ last.status = FABRIC_CANT_DELETE_CLASS_HAS_CHILDREN
    /\ \E c \in Held : c = <<last.id, last.gen>> /\ Obj(c).first_child_id # 0

\* ------------------------------------------------------------------ C9
\* C9: delete_class on a class without children but with members (count not
\* 0) fails with 'can't delete: has members' and changes nothing: the class
\* stays live and hierarchy, num_classes and free list are as before.
C9_DeleteWithMembersRefused ==
    [][ \A c \in Held \cap {<<last'.id, last'.gen>>} : \A m \in Mems :
          (Obj(c).first_child_id = 0 /\ Obj(c).count # 0 /\ DeleteClassOf(c, m)) =>
              /\ last'.status = FABRIC_CANT_DELETE_CLASS_HAS_MEMBERS
              /\ UNCHANGED StoreVars
              /\ UNCHANGED freed
              /\ Fabric_Class_is_in_use(ViewNext(c[1])) ]_vars

\* A delete of a childless class with a member has just been refused.
C9_Witness ==
    /\ last.op = "delete_class"
    /\ last.status = FABRIC_CANT_DELETE_CLASS_HAS_MEMBERS
    /\ \E c \in Held : c = <<last.id, last.gen>> /\ Obj(c).first_child_id = 0 /\ Obj(c).count = 1

\* ----------------------------------------------------------------- C10
\* C10: create_class with a name that a live class has fails with
\* 'duplicate class name' and changes nothing: no id is allocated, and
\* num_classes, next_free_id and the hierarchy are as before.
C10_DuplicateNameRefused ==
    [][ \A extends \in Held : \A is_abstract \in {0, 1} :
          (/\ CreateClassOf(extends, RootName, is_abstract)
           /\ \E i \in Live : View(i).label_id = RootName) =>
              /\ last'.status = FABRIC_DUPLICATE_CLASSNAME
              /\ UNCHANGED StoreVars ]_vars

\* ----------------------------------------------------------------- C11
\* C11: after a create_class that reports success, a lookup by id of the
\* class it created returns OK and the very object create_class returned,
\* as long as no flush has happened.
C11_LookupReturnsCreated ==
    [][ \A extends \in Held : \A name \in Names : \A is_abstract \in {0, 1} :
          (CreateClassOf(extends, name, is_abstract) /\ last'.status = FABRIC_OK) =>
              LET c == <<last'.id, last'.gen>> IN
              /\ c # NULL
              /\ GetNext(c[1]).status = FABRIC_OK
              /\ GetNext(c[1]).ret = c ]_vars

\* ----------------------------------------------------------------- C12
\* C12: in every reachable state every id of the changed set is a key of
\* the cache with a record that is not NULL; after delete_class of a first
\* child the parent is dirty and cached with its rewritten first child.
C12_DirtyIsCached ==
    \A id \in changed : Fabric_EntityMap_get(cache, id) # NULL

C15_HeaderRoundTrip ==
    (last.op = "flush" /\ last.status = FABRIC_OK) =>
        dheader = [num |-> num_classes, next |-> next_free_id, last |-> last_free_id]

C17_ChangeCounterCounts ==
    [][ /\ file_change_counter' >= file_change_counter
        /\ (Flush /\ last'.status = FABRIC_OK /\ last'.wrote # {}) =>
               file_change_counter' = file_change_counter + 1 ]_vars

C20_OutOfRangeIdRefused ==
    /\ \A id \in 0..(max_id + 2) :
          LET r == Fabric_ClassStore_get_class(Store, id) IN
          (Fabric_EntityMap_get(cache, id) = NULL /\ ~ r.over) =>
              IF id = 0 \/ id > max_id
              THEN r.ret = NULL /\ r.status = FABRIC_CLASSSTORE_INVALID_ID /\ r.s = Store
              ELSE r.status # FABRIC_CLASSSTORE_INVALID_ID
    /\ \A id \in 0..(LabelMaxId + 2) : \A mem \in {NoFail, 0} :
          LET r == Fabric_LabelStore_get_label(label_store, id, mem) IN
          (id \notin DOMAIN label_store.cache \/ label_store.cache[id] = NoLabel) =>
              IF id = 0 \/ id > LabelMaxId
              THEN r.ret = 0 /\ r.status = FABRIC_LABELSTORE_INVALID_ID /\ r.s = label_store
              ELSE r.status # FABRIC_LABELSTORE_INVALID_ID

\* ----------------------------------------------------------------- C21
\* C21: get_class_by_name(x) returns a live class named x with status OK
\* when there is one, and NULL with 'class does not exist' when no live
\* class is named x.
C21_LookupByName ==
    \A name \in Names :
        LET r     == Fabric_ClassStore_get_class_by_name(Store, name)
            named == { i \in Live : View(i).label_id = name }
        IN IF named # {}
           THEN r.status = FABRIC_OK /\ r.ret # NULL /\ r.ret[1] \in named
           ELSE r.ret = NULL /\ r.status = FABRIC_CLASS_DOESNT_EXIST

\* ----------------------------------------------------------------- C22
\* C22: an add_label of a name, with no allocation failing, returns OK and
\* the id of the label of that name; the label is then in use with one
\* reference more than before the call (one reference when the name is new),
\* so that n calls with one name return one id and leave n references.
C22_AddLabelCounts ==
    [][ \A name \in LabelNames :
          AddLabelOf(name, NoFail) =>
              LET was == Fabric_LabelIndex_get_label_id(label_store, name).ret
                  id  == last'.id
              IN /\ last'.status = FABRIC_OK
                 /\ id \in 1..LabelMaxId
                 /\ was # 0 => id = was
                 /\ LabelView(label_store', id).text_id = name
                 /\ LabelView(label_store', id).refs =
                       IF was = 0 THEN 1 ELSE LabelView(label_store, was).refs + 1 ]_vars

\* ----------------------------------------------------------------- C24
\* C24: remove_label(id) on a label in use takes one reference from it;
\* with references left the label stays in use with its text; with none
\* left its text id is 0 and its id is the head of the label free list.
C24_RemoveLabelReleases ==
    [][ \A id \in 1..LabelMaxId :
          (/\ Fabric_Label_is_in_use(LabelView(label_store, id))
           /\ LabelView(label_store, id).refs > 0
           /\ RemoveLabelOf(id)) =>
              LET before == LabelView(label_store, id)
                  after  == LabelView(label_store', id)
              IN /\ last'.status = FABRIC_OK
                 /\ IF before.refs > 1
                    THEN after = [before EXCEPT !.refs = @ - 1]
                    ELSE /\ after.text_id = 0
                         /\ after.refs = label_store.next_free_id
                         /\ label_store'.next_free_id = id ]_vars

\* ----------------------------------------------------------------- C23
\* C23: with classes the only entities that name labels, every label in
\* use has as many references as there are live classes (in use and not
\* deleted) whose label id it is, and a label that no live class names is
\* not in use.
C23_RefsCountClasses ==
    \A l \in 1..LabelMaxId :
        LET lab == LabelView(label_store, l)
            n   == Cardinality({ c \in Live \ Range(freed) : View(c).label_id = l })
        IN /\ Fabric_Label_is_in_use(lab) => lab.refs = n
           /\ n = 0 => ~ Fabric_Label_is_in_use(lab)

\* ----------------------------------------------------------------- C25
\* C25: after create_graph and load_graph of the file, class 1 is a live
\* class, it is a root (its parent is 0 or itself), and the parent chain of
\* every live class ends at it.
C25_RootIsSeeded ==
    LET r == Fabric_ClassStore_get_class(Store, 1) IN
    ~ r.over =>
        /\ r.status = FABRIC_OK
        /\ View(1).parent_id \in {0, 1}
        /\ \A c \in Live : ReachesRoot(c, Cardinality(Live))

\* C26: the IdSet refines a set of ids. After any sequence of
\* Fabric_IdSet_add and Fabric_IdSet_remove calls with ids other than 0 and
\* the tombstone, every call has returned, Fabric_IdSet_has(id) returns
\* TRUE exactly for the ids added and not removed since, get_count is their
\* number and is_empty holds exactly when there is none.
C26_IdSetRefinesSet ==
    /\ last.status # HANG
    /\ \A id \in 1..MaxIds :
        LET h == IdSet_has(set, id, hostLE = "le") IN
        /\ ~ h.hang
        /\ h.ret = (id \in abs)
    /\ IdSet_get_count(set) = Cardinality(abs)
    /\ IdSet_is_empty(set) = (abs = {})

\* C27: when Fabric_IdSet_to_array returns an array, the array has
\* get_count entries, pairwise distinct, which are exactly the members of
\* the set, none of them 0 or the tombstone; it returns a null pointer only
\* for an empty set or when the allocation failed.
C27_ToArraySnapshot ==
    last.op = "idset_to_array" =>
        LET a == last.wrote IN
        IF last.id = 1 THEN
            /\ Len(a) = IdSet_get_count(set)
            /\ \A i, j \in 1..Len(a) : i # j => a[i] # a[j]
            /\ { a[i] : i \in 1..Len(a) } = abs
            /\ \A i \in 1..Len(a) : a[i] # 0 /\ a[i] # FABRIC_IDSET_TOMBSTONE
        ELSE IdSet_get_count(set) = 0 \/ last.status = FABRIC_OUT_OF_MEMORY

C27_Witness ==
    /\ last.op = "idset_to_array"
    /\ last.id = 1
    /\ Len(last.wrote) >= 2
    /\ set.cap > 1
    /\ \E i \in 1..set.cap : set.ids[i] = FABRIC_IDSET_TOMBSTONE

\* C28: the EntityMap refines a finite map from key to handle. After any
\* sequence of Fabric_EntityMap_set and Fabric_EntityMap_unset calls every
\* call has returned, Fabric_EntityMap_get(k) returns the handle set last
\* for k, NULL when k was never set or was unset since, has_key agrees, and
\* get_count is the number of keys present.
C28_EntityMapRefinesMap ==
    /\ last.status # HANG
    /\ \A k \in 1..MaxIds :
        LET g == EntityMap_get(map, k, hostLE = "le")
            h == EntityMap_has_key(map, k, hostLE = "le")
        IN /\ ~ g.hang
           /\ ~ h.hang
           /\ g.ret = (IF k \in DOMAIN abs THEN abs[k] ELSE 0)
           /\ h.ret = (k \in DOMAIN abs)
    /\ EntityMap_get_count(map) = Cardinality(DOMAIN abs)

\* C29: the DynamicList refines a sequence. After any sequence of
\* Fabric_DynamicList_append and Fabric_DynamicList_remove_last calls,
\* count is the length of the sequence, Fabric_DynamicList_at(i) is its
\* i-th element for 0 <= i < count and NULL for any other i, and
\* remove_last on an empty list returns OK and leaves the list empty.
C29_ListRefinesSequence ==
    /\ Fabric_DynamicList_count(list) = Len(abs)
    /\ \A pos \in -2..(list.cap + 1) :
        Fabric_DynamicList_at(list, pos) =
            (IF 0 <= pos /\ pos < Len(abs) THEN abs[pos + 1] ELSE 0)
    /\ last.op = "list_remove_last" /\ last.id = 0 =>
        last.status = FABRIC_OK /\ Fabric_DynamicList_count(list) = 0
    /\ last.op = "list_at" =>
        last.wrote = {IF 0 <= last.name /\ last.name < Len(abs) THEN abs[last.name + 1] ELSE 0}

C29_Witness ==
    /\ last.op = "list_remove_last"
    /\ list.cap > FABRIC_DYNAMIC_LIST_MIN_CAP
    /\ list.count = FABRIC_DYNAMIC_LIST_MIN_CAP
    /\ list.list[list.count + 1] \in Entities

\* C30: Fabric_memused() is at all times the total size of the blocks
\* obtained through Fabric_memalloc and Fabric_memrealloc and not released
\* with Fabric_memfree, whatever was created, resized, failed to be
\* allocated, or destroyed.
C30_MemusedIsLiveBytes ==
    Fabric_memused(Mem) = SizeOfBlocks(blocks)

\* ------------------------------------------------- the hierarchy's callers
\* The result of a call that fills a list: the store after it, the list
\* (the pointers appended, in order), *status or the value returned, and
\* `over` as in Fabric_ClassStore_get_class.
Out(s, items, status, over) == [s |-> s, list |-> items, status |-> status, over |-> over]

\* `depth != 1` of line 340, without the levels below 1.
Descends_Mut(depth) == depth > 1
\* `depth != 1` of line 340.
Descends(depth) == depth # 1

\* Fabric_Class_load_descendent_classes(self, graph, list, depth), and its
\* while loop from current_child on.  The lists of the model stay below the
\* 16 entries a DynamicList starts with, so Fabric_DynamicList_append never
\* allocates.  A walk that takes more steps than there are slots never ends.
RECURSIVE Fabric_Class_load_descendent_classes(_, _, _, _, _)
RECURSIVE LoadLoop(_, _, _, _, _)
LoadLoop(s, current_child, items, depth, fuel) ==
    IF fuel = 0 THEN Out(s, items, HANG, FALSE)
    ELSE Only({
        IF d.over \/ d.status # FABRIC_OK THEN d
        ELSE IF Deref(d.s, current_child).next_child_id # 0 THEN
            Only({ IF r.over \/ r.status # FABRIC_OK THEN Out(r.s, d.list, r.status, r.over)
                   ELSE LoadLoop(r.s, r.ret, d.list, depth, fuel - 1) :
                   r \in {Fabric_ClassStore_get_class(
                              d.s, Deref(d.s, current_child).next_child_id)} })
        ELSE d :
        d \in {IF Descends(depth)
               THEN Fabric_Class_load_descendent_classes(
                        s, current_child, Append(items, current_child), depth - 1, fuel - 1)
               ELSE Out(s, Append(items, current_child), FABRIC_OK, FALSE)} })

Fabric_Class_load_descendent_classes(s, self, items, depth, fuel) ==
    IF ~ Fabric_Class_has_child_classes(Deref(s, self)) THEN Out(s, items, FABRIC_OK, FALSE)
    ELSE Only({ IF r.over \/ r.status # FABRIC_OK THEN Out(r.s, items, r.status, r.over)
                ELSE LoadLoop(r.s, r.ret, items, depth, fuel) :
                r \in {Fabric_ClassStore_get_class(s, Deref(s, self).first_child_id)} })

\* Fabric_Class_get_descendent_classes(self, graph, status): a new list,
\* which takes two allocations, filled to every depth.
Fabric_Class_get_descendent_classes(s, self, fuel) ==
    IF s.mem \in {0, 1} THEN Out(s, NULL, FABRIC_OUT_OF_MEMORY, FALSE)
    ELSE Fabric_Class_load_descendent_classes(s, self, <<>>, 0, fuel)

\* The sum of the counts of the objects of a list.
RECURSIVE SumCounts(_, _)
SumCounts(s, items) ==
    IF items = <<>> THEN 0 ELSE Deref(s, Head(items)).count + SumCounts(s, Tail(items))

\* Fabric_Class_get_total_count(self, graph, status): line 481 compares the
\* pointer status with FABRIC_OK, so the loop over the list never runs.
Fabric_Class_get_total_count(s, self, fuel) ==
    Only({ [s |-> r.s, over |-> r.over, status |-> r.status,
            ret |-> IF ~ StatusPointerIsSet /\ r.list # NULL
                    THEN Deref(s, self).count + SumCounts(r.s, r.list)
                    ELSE Deref(s, self).count] :
           r \in {Fabric_Class_get_descendent_classes(s, self, fuel)} })

\* Fabric_Class_increment(self): the store after the call and the result.
Fabric_Class_increment(s, self) ==
    [s |-> SetField(s, self, "incrementer", Deref(s, self).incrementer + 1),
     ret |-> Deref(s, self).incrementer]

\* The calls of Fabric_Class_increment one object gets.
MaxIncrements == 2

\* The depths a caller asks for.
Depths == {0, 1, 2}

TreeCall(op, c, arg, status, ret) ==
    [op |-> op, id |-> c[1], gen |-> c[2], name |-> arg, status |-> status, wrote |-> ret]

\* Fabric_Class_load_descendent_classes(c, graph, list, depth) on a list the
\* caller has just made; malloc fails after m allocations.
LoadDescendents ==
    /\ Running
    /\ \E c \in Held : \E depth \in Depths : \E m \in {NoFail, 0} :
        LET r == Fabric_Class_load_descendent_classes(StoreWith(m), c, <<>>, depth, Fuel) IN
        /\ ~ r.over
        /\ Becomes(r.s)
        /\ last' = TreeCall("load_descendents", c, depth, r.status, r.list)
    /\ UNCHANGED <<hostLE, dheader, file_change_counter, label_store, lib, file, hdr, freed>>

\* Fabric_Class_get_total_count(c, graph, &status)
GetTotalCount ==
    /\ Running
    /\ \E c \in Held : \E m \in {NoFail, 0} :
        LET r == Fabric_Class_get_total_count(StoreWith(m), c, Fuel) IN
        /\ ~ r.over
        /\ Becomes(r.s)
        /\ last' = TreeCall("get_total_count", c, 0, r.status, r.ret)
    /\ UNCHANGED <<hostLE, dheader, file_change_counter, label_store, lib, file, hdr, freed>>

\* Fabric_Class_increment(c)
Increment ==
    /\ Running
    /\ \E c \in Held :
        LET r == Fabric_Class_increment(Store, c) IN
        /\ r.ret <= MaxIncrements
        /\ Becomes(r.s)
        /\ last' = TreeCall("increment", c, 0, FABRIC_OK, r.ret)
    /\ UNCHANGED <<hostLE, dheader, file_change_counter, label_store, lib, file, hdr, freed>>

NextTree == GetClass \/ LoadDescendents \/ GetTotalCount

SpecTree == Init /\ [][NextTree]_vars

NextIncrement == GetClass \/ CreateClass \/ Increment

SpecIncrement == Init /\ [][NextIncrement]_vars

\* ----------------------------------------------------------------- C35
\* C35: Fabric_Class_increment returns the incrementer the class has and
\* leaves it one higher; the class that Fabric_ClassStore_create_class has
\* just returned gives 1 on its first call.
C35_IncrementCounts ==
    [][ /\ last'.op = "increment" =>
            /\ last'.wrote = heap[last'.id][last'.gen].incrementer
            /\ heap'[last'.id][last'.gen].incrementer = last'.wrote + 1
        /\ \A extends \in Held : \A name \in Names : \A is_abstract \in {0, 1} :
            (CreateClassOf(extends, name, is_abstract) /\ last'.status = FABRIC_OK) =>
                \E c \in {Fabric_ClassStore_create_class(Store, extends, name, is_abstract).ret} :
                    /\ c # NULL
                    /\ heap'[c[1]][c[2]].incrementer = 1
      ]_vars

\* ----------------------------------------------------------------- C36
\* The number of parent links from class x up to class c, -1 when x is not
\* below c.
RECURSIVE Distance(_, _, _)
Distance(x, c, fuel) ==
    IF x = c THEN 0
    ELSE IF fuel = 0 \/ x \notin Live THEN -1
    ELSE IF Distance(View(x).parent_id, c, fuel - 1) < 0 THEN -1
    ELSE Distance(View(x).parent_id, c, fuel - 1) + 1

RECURSIVE SumOf(_)
\* The sum of the member counts of a set of classes.
SumOf(S) ==
    IF S = {} THEN 0
    ELSE LET x == CHOOSE y \in S : TRUE IN View(x).count + SumOf(S \ {x})

\* C37: Fabric_Class_get_total_count(c), when it reports FABRIC_OK, returns
\* the member count of c plus the member counts of all classes below c.
C37_TotalCountSums ==
    [][ (last'.op = "get_total_count" /\ last'.status = FABRIC_OK) =>
          last'.wrote = SumOf({ x \in Live : Distance(x, last'.id, Fuel) >= 0 }) ]_vars

\* ------------------------------------------------ the flush, write by write
\* Fabric_ClassStore_flush one write at a time.  While the call runs, last
\* holds the header the file had when it began (id), the ids of the array
\* Fabric_IdSet_to_array gave (name) and the slots written so far (wrote, 0
\* standing for the header); the loop removes each id from the changed set
\* once its slot is written, so the ids still to write are those left there.
FlushStep(pre, ids, status, wrote) ==
    [op |-> "flush_step", id |-> pre, gen |-> 0, name |-> ids, status |-> status,
     wrote |-> wrote]

InFlush == last.op = "flush_step" /\ last.status = BUSY

\* The header is written whether or not the loop has written every id.
HeaderDue_Mut(ids, wrote) == TRUE
\* The loop of lines 101-125 has run through the array: line 127 is next.
HeaderDue(ids, wrote) == ids \subseteq wrote

\* One turn of the loop of lines 101-125, the first one after lines 83-92;
\* the order of the array is left open.
FlushSlot ==
    /\ Running \/ InFlush
    /\ ~ Fabric_IdSet_is_empty(changed)
    /\ LET pre   == IF InFlush THEN last.id ELSE dheader
           ids   == IF InFlush THEN last.name ELSE changed
           wrote == IF InFlush THEN last.wrote ELSE {}
       IN \/ \* Fabric_IdSet_to_array: malloc failed
             /\ ~ InFlush
             /\ last' = FlushCall(FABRIC_OUT_OF_MEMORY, {})
             /\ UNCHANGED <<hostLE, disk, changed>>
          \/ \E changed_id \in ids \ wrote :
             \E h \in (IF hostLE = "any" THEN {"le", "be"} ELSE {hostLE}) :
               IF changed_id > max_id THEN
                   /\ last' = FlushStep(pre, ids, FABRIC_CLASSSTORE_NEEDS_RESIZE, wrote)
                   /\ UNCHANGED <<hostLE, disk, changed>>
               ELSE IF Fabric_EntityMap_get(cache, changed_id) = NULL THEN
                   /\ last' = FlushStep(pre, ids, CRASH, wrote)
                   /\ UNCHANGED <<hostLE, disk, changed>>
               ELSE
                   /\ disk' = FlushWrite(disk, {changed_id}, h = "le")
                   /\ changed' = Fabric_IdSet_remove(changed, changed_id)
                   /\ hostLE' = h
                   /\ last' = FlushStep(pre, ids, BUSY, wrote \cup {changed_id})
    /\ UNCHANGED <<dheader, num_classes, next_free_id, last_free_id, heap, cache,
                   changed_cap, file_change_counter, label_store, lib, file, hdr, freed>>

\* Lines 127-131: the three writes of the header and the return.
FlushHeader ==
    /\ InFlush
    /\ HeaderDue(last.name, last.wrote)
    /\ dheader' = [num  |-> Fabric_Graph_write_uint16(num_classes, hostLE = "le"),
                   next |-> Fabric_Graph_write_uint16(next_free_id, hostLE = "le"),
                   last |-> Fabric_Graph_write_uint16(next_free_id, hostLE = "le")]
    /\ last' = FlushStep(last.id, last.name, FABRIC_OK, last.wrote \cup {0})
    /\ UNCHANGED <<hostLE, disk, num_classes, next_free_id, last_free_id, heap, cache,
                   changed, changed_cap, file_change_counter, label_store, lib, file, hdr,
                   freed>>

\* The process is stopped while the flush runs; the file stays as it is.
Interrupt ==
    /\ InFlush
    /\ last' = [last EXCEPT !.status = CRASH]
    /\ UNCHANGED <<hostLE, StoreVars, file_change_counter, label_store, lib, file, hdr, freed>>

NextSteps == GetClass \/ DeleteClass \/ FlushSlot \/ FlushHeader \/ Interrupt

SpecSteps == Init /\ [][NextSteps]_vars

\* ----------------------------------------------------------------- C38
\* The free list as the file has it: from id along the link (parent) field
\* of the slots on disk to the header's last_free_id, through slots that
\* are not in use.
RECURSIVE DiskFreeList(_, _)
DiskFreeList(id, fuel) ==
    IF id = dheader.last THEN TRUE
    ELSE IF fuel = 0 THEN FALSE
    ELSE /\ ~ Fabric_Class_is_in_use(ReadSlot(disk, id))
         /\ DiskFreeList(ReadSlot(disk, id).parent_id, fuel - 1)

\* C38: Fabric_ClassStore_flush writes the header only after the slot of
\* every id of its array, and whenever it is stopped before the header write
\* the header on disk is the one from before the call and the free list
\* followed from its next_free_id along the link fields on disk ends at its
\* last_free_id without meeting a slot in use.
C38_SlotsBeforeHeader ==
    /\ [][ (last'.op = "flush_step" /\ 0 \in last'.wrote) =>
              last'.name \subseteq last'.wrote ]_vars
    /\ []( (last.op = "flush_step" /\ 0 \notin last.wrote) =>
              /\ dheader = last.id
              /\ DiskFreeList(dheader.next, Fuel) )

\* A flush was stopped after it wrote a slot, on a file whose free list is
\* not empty.
C38_Witness ==
    /\ last.op = "flush_step"
    /\ last.status = CRASH
    /\ last.wrote # {}
    /\ 0 \notin last.wrote
    /\ dheader.next # dheader.last

\* ------------------------------------------------------ the id allocator
\* class_id = Fabric_ClassStore__next_id(self), the call of line 290, on a
\* store loaded from a well-formed file or from the file Fabric_create_graph
\* leaves.  The ids followed are those of the slots, 0 and 0xFFFF.
NextId ==
    /\ Running
    /\ LET r == Fabric_ClassStore__next_id(Store) IN
        /\ r.ret \in Slots \cup {0, EofHalf}
        /\ Becomes(r.s)
        /\ last' = [op |-> "next_id", id |-> r.ret, gen |-> 0, name |-> 0,
                    status |-> r.status, wrote |-> {}]
    /\ UNCHANGED <<hostLE, dheader, file_change_counter, label_store, lib, file, hdr, freed>>

InitAlloc == Init \/ InitFresh

NextAlloc == GetClass \/ CreateClass \/ DeleteClass \/ Flush \/ NextId

SpecAlloc == InitAlloc /\ [][NextAlloc]_vars

\* ----------------------------------------------------------------- C39
\* C39: an id that Fabric_ClassStore__next_id hands out is at least 1 and is
\* not the id of a class that is live at that moment, and the id of an
\* allocation that directly follows another differs from that one's.
C39_FreshIds ==
    [][ (last'.op = "next_id" /\ last'.status = FABRIC_OK /\ NextId) =>
          /\ last'.id >= 1
          /\ last'.id \notin Live
          /\ last.op = "next_id" => last'.id # last.id ]_vars

\* ------------------------------------------------- the tables' callers
\* A caller that holds an IdSet, or one that holds an EntityMap, and adds
\* and removes ids, or sets and unsets keys, in any order; the lookups are
\* the calls whose probe loop has to end.
InitTables == InitIdSet \/ InitMap

NextTables ==
    \/ set.cap > 0 /\ (IdSetAdd \/ IdSetRemove \/ IdSetHas)
    \/ map.cap > 0 /\ (MapSet \/ MapUnset \/ MapGet)

SpecTables == InitTables /\ [][NextTables]_vars

\* ----------------------------------------------------------------- C40
\* C40: after any sequence of add and remove calls on an IdSet, and of set
\* and unset calls on an EntityMap, the table has a cell with key 0, and the
\* probe loops of Fabric_IdSet_has and of Fabric_EntityMap__pos_of_key end
\* for every id, present or absent.
C40_TableKeepsEmptyCell ==
    /\ set.cap > 0 =>
          /\ \E i \in 1..set.cap : set.ids[i] = 0
          /\ \A id \in 1..MaxIds :
                IdSet__find(set.ids, set.cap, HashPos(id, hostLE = "le", set.cap),
                            id, set.cap) # Endless
    /\ map.cap > 0 =>
          /\ \E i \in 1..map.cap : map.entries[i].key = 0
          /\ \A key \in 1..MaxIds :
                EntityMap__pos_of_key(map, key, hostLE = "le") # Endless

\* ----------------------------------------------------------------- C31
\* The bytes of the file at an offset, which are the field's value when the
\* file holds it big-endian.
FileField(f, offset) == SubSeq(f, offset + 1, offset + 4)

\* What Fabric_create_graph is said to put in the header.
CreatedFields ==
    [k \in 1..Len(HeaderFields) |->
        CASE k = 1 -> 1
          [] k = 2 -> 0
          [] k = 3 -> 1
          [] k \in 4..9 -> FABRIC_HEADER_SIZE + (k - 4) * 65536
          [] k = 10 -> 32
          [] k = 11 -> FABRIC_HEADER_SIZE + 6 * 65536
          [] k = 12 -> 65536
          [] k = 13 -> 0]

\* C31: Fabric_create_graph leaves a file whose header holds, big-endian,
\* fabric version 1, application version 0, change counter 1, class store
\* offset 84, every following store offset 65536 after the one before, text
\* block size 32, index page size 65536 and index page count 0, behind the
\* signature and an application string of NULs; a Fabric_load_graph that
\* follows reads every header field as Fabric_create_graph set it.
C31_CreateThenLoad ==
    [][ /\ last'.op = "create_graph" =>
            /\ SubSeq(file', 1, 16) = FABRIC_HEADER_STRING
            /\ SubSeq(file', 17, 32) = [i \in 1..16 |-> 0]
            /\ \A k \in 1..Len(HeaderFields) :
                /\ FileField(file', FieldOffset(k)) = Word(CreatedFields[k])
                /\ hdr'[HeaderFields[k]] = Word(CreatedFields[k])
        /\ (last.op = "create_graph" /\ last'.op = "load_graph") =>
            /\ hdr'.fabric_header_string = hdr.fabric_header_string
            /\ hdr'.application_header_string = hdr.application_header_string
            /\ \A k \in 1..Len(HeaderFields) : hdr'[HeaderFields[k]] = hdr[HeaderFields[k]]
      ]_vars

\* A little-endian host has loaded a graph it created.
C31_Witness ==
    /\ hostLE = "le"
    /\ last.op = "load_graph"
    /\ hdr.fabric_header_string = FABRIC_HEADER_STRING
    /\ hdr.index_store_offset = Word(FABRIC_HEADER_SIZE + 6 * 65536)
    /\ hdr.text_block_size = Word(32)

\* ----------------------------------------------------------------- C32
\* C32: Fabric_load_graph of a file whose first 16 bytes are not the
\* signature reports an error and initializes no store.
C32_ForeignFileRejected ==
    [][ (last'.op = "load_graph" /\ Fabric_Graph_read_bytes(file, 16, 0) # FABRIC_HEADER_STRING)
        => (last'.status # FABRIC_OK /\ hdr'.stores = {}) ]_vars

\* ----------------------------------------------------------------- C33
\* C33: the 21 bytes Fabric_Class_load_bytes produces hold each field
\* big-endian at its layout position (label 0, parent 4, first child 6, next
\* sibling 8, first index 10, count 12, is-abstract 16, incrementer 17), and
\* Fabric_Class_init on those bytes gives the field values back, on a little-
\* and on a big-endian host.
C33_ClassBytesRoundTrip ==
    [][ /\ last'.op = "load_bytes" =>
            \A j \in 1..Len(ClassLayout) :
                SubSeq(file', Fabric_ClassStore__get_id_offset(1) + ClassLayout[j][2] + 1,
                       Fabric_ClassStore__get_id_offset(1) + ClassLayout[j][2] + ClassLayout[j][3])
                    = last'.name[ClassLayout[j][1]]
        /\ (last.op = "load_bytes" /\ last'.op = "class_init") => last'.wrote = last.name
      ]_vars

\* ----------------------------------------------------------------- C34
\* C34: a value written with Fabric_Graph_write_uint16 (write_uint32) at an
\* offset is the value Fabric_Graph_read_uint16 (read_uint32) returns from
\* that offset, on a little- and on a big-endian host, and the bytes in the
\* file are the value big-endian.
C34_IntegerRoundTrip ==
    [][ /\ last'.op = "write_uint16" => SubSeq(file', last'.id + 1, last'.id + 2) = last'.name
        /\ last'.op = "write_uint32" => FileField(file', last'.id) = last'.name
        /\ (last.op = "write_uint16" /\ last'.op = "read_uint16" /\ last'.id = last.id)
            => last'.wrote = last.name
        /\ (last.op = "write_uint32" /\ last'.op = "read_uint32" /\ last'.id = last.id)
            => last'.wrote = last.name
      ]_vars

====
